---------------------------- MODULE Spec2Model ----------------------------
(***************************************************************************)
(* A model of the wb-repricer backend: the SKU <-> strategy attachment     *)
(* handlers, the signal processor and its periodic sweep, the reprice      *)
(* orchestrator with its queue worker, and the unit-economics engine.      *)
(*                                                                         *)
(* Every handler is split at its awaits: one action per database call, so  *)
(* that two requests, two sweeps or two queue jobs interleave exactly      *)
(* where the Node.js event loop (or a second process) lets them.           *)
(*                                                                         *)
(* Money is kept in ten-thousandths of a currency unit, so that one step   *)
(* of a built-in strategy from a price in hundredths is exact; rates are   *)
(* whole percents; the engine's rounded profit is in hundredths of a unit  *)
(* and its rounded margin in hundredths of a percent.  Time is in minutes. *)
(***************************************************************************)
EXTENDS Integers, Sequences, FiniteSets, TLC

VARIABLES
    skus,             \* table skus:            id -> row
    strategies,       \* table strategies:      id -> row
    skuStrategies,    \* table sku_strategies:  <<skuId, strategyId>> -> NoRow | row.active
    reqs,             \* in-flight HTTP requests of the strategy controller
    signals,          \* table signals, in creation order: the id is the index
    priceHistory,     \* table price_history, in creation order
    now,              \* the wall clock, in minutes
    sweeps,           \* runs of Scheduler.processUnprocessedSignals
    approvedLog,      \* the "Signal ... approved for reprice" log lines, by signal id
    marketData,       \* table market_data: skuId -> its snapshots, the latest last
    priceRejections,  \* table price_rejections, in creation order
    jobs,             \* the reprice queue: job id -> job, with the worker's position
    wb,               \* the marketplace: skuId -> the price last pushed to it
    users,            \* table users: id -> row
    engine            \* the last call of the unit-economics engine and its result

sigVars    == <<signals, sweeps, approvedLog>>
repVars    == <<marketData, priceRejections, jobs, wb, users, engine>>
dbVars     == <<skus, strategies, signals, priceHistory, now, sweeps, approvedLog,
                repVars>>
vars       == <<skus, strategies, skuStrategies, reqs, signals, priceHistory, now,
                sweeps, approvedLog, marketData, priceRejections, jobs, wb, users,
                engine>>

---------------------------------------------------------------------------
(* Identities *)

Users       == {"u1", "u2"}
SKUIds      == {"s1", "s2"}
StrategyIds == {"A", "B"}
ReqIds      == {"r1", "r2"}
SweepIds    == {"w1", "w2"}
JobIds      == {"j1", "j2"}

\* a skuId a request body may carry that is no row of skus
MissingSKU  == "s0"

\* sku_strategies.active of the row <<skuId, strategyId>>, or the absence of the row
NoRow    == "none"
Active   == "active"
Inactive == "inactive"

---------------------------------------------------------------------------
(* sku_strategies: the two write primitives the controller uses *)

\* prisma.sKUStrategy.updateMany({ where: { skuId }, data: { active: false } })
DeactivateAll(tbl, skuId) ==
    [k \in DOMAIN tbl |->
        IF k[1] = skuId /\ tbl[k] # NoRow THEN Inactive ELSE tbl[k]]

\* Upsert with the update branch left empty, as attachToSKU writes it
UpsertIgnoringUpdate(tbl, skuId, strategyId, createActive, updateActive) ==
    [tbl EXCEPT ![<<skuId, strategyId>>] =
        IF @ = NoRow THEN createActive ELSE @]

\* prisma.sKUStrategy.upsert({ where: skuId_strategyId, create: {active: c}, update: u })
\* u = NoRow stands for the empty update {}.
Upsert(tbl, skuId, strategyId, createActive, updateActive) ==
    [tbl EXCEPT ![<<skuId, strategyId>>] =
        IF @ = NoRow THEN createActive
        ELSE IF updateActive = NoRow THEN @ ELSE updateActive]

ActiveStrategies(tbl, skuId) ==
    {id \in StrategyIds : tbl[<<skuId, id>>] = Active}

---------------------------------------------------------------------------
(* Rows *)

\* a strategy as createStrategySchema's defaults make it, owned by userId
DefaultStrategy(userId) ==
    [ userId           |-> userId,
      type             |-> "competitive_hold",
      active           |-> TRUE,
      conditions       |-> <<>>,
      actions          |-> <<>>,
      constraints      |-> <<>>,
      stopConditions   |-> <<>>,
      allowedSignals   |-> {},
      ignoredSignals   |-> {},
      cooldownMinutes  |-> 360,
      maxChangesPerDay |-> 3 ]

\* a row of skus; money in ten-thousandths of a currency unit, rates in percent
DefaultSKU(userId) ==
    [ userId       |-> userId,
      active       |-> TRUE,
      currentPrice |-> 120000,
      position     |-> 0,
      costPrice    |-> 80000,
      wbCommission |-> 15,
      logistics    |-> 5000,
      storage      |-> 0,
      spp          |-> 0,
      tax          |-> 6 ]

\* no call of the engine on its own yet
NoCall == [op |-> "-"]

IdleReq == [pc |-> "idle", op |-> "-", userId |-> "-", id |-> "-", skuId |-> "-", status |-> 0]

---------------------------------------------------------------------------
(* UnitEconomicsEngine *)

\* money units in one hundredth of a currency unit, and in one unit
Cent  == 100
Scale == Cent * Cent

\* Math.round(n / d) for d > 0: the nearest integer, a half goes up
RoundDiv(n, d) == (2 * n + d) \div (2 * d)

\* Math.ceil(n / d) for d > 0
CeilDiv(n, d) == -((-n) \div d)

Max(a, b) == IF a >= b THEN a ELSE b
Min(a, b) == IF a <= b THEN a ELSE b
Abs(a)    == IF a >= 0 THEN a ELSE -a

\* x * (p / 100), at the resolution of the money unit
Pct(x, p) == RoundDiv(x * p, 100)

\* UnitEconomicsEngine.extractEconomicsFromSKU
ExtractEconomicsFromSKU(sku) ==
    [ costPrice    |-> sku.costPrice,
      wbCommission |-> sku.wbCommission,
      logistics    |-> sku.logistics,
      storage      |-> sku.storage,
      spp          |-> sku.spp,
      tax          |-> sku.tax ]

FixedCosts(e)       == e.costPrice + e.logistics + e.storage
VariableCostRate(e) == e.wbCommission + e.spp + e.tax

\* the profit before rounding, as a numerator over 100 * 100 money units:
\* afterSPP - costPrice - commission - logistics - storage - tax
ProfitNumerator(price, e) ==
    price * (100 - e.spp) * (100 - e.wbCommission - e.tax) - FixedCosts(e) * 100 * 100

\* The profit rounded to hundredths of a unit with the commission and the tax
\* taken from the full price instead of the price after the buyer's discount
CalculateProfitOnFullPrice(price, e) ==
    RoundDiv(price * (100 - e.spp - e.wbCommission - e.tax) * 100
                 - FixedCosts(e) * 100 * 100, 100 * 100 * Cent)

\* calculateProfit: Math.round(profit * 100) / 100, in hundredths of a unit
CalculateProfit(price, e) ==
    RoundDiv(ProfitNumerator(price, e), 100 * 100 * Cent)

\* calculateMargin for a price other than 0: Math.round(margin * 100) / 100,
\* in hundredths of a percent
CalculateMargin(price, e) ==
    IF price > 0
    THEN RoundDiv(CalculateProfit(price, e) * 100 * Scale, price)
    ELSE RoundDiv(-(CalculateProfit(price, e) * 100 * Scale), -price)

\* calculateBreakeven throws 'Variable costs >= 100%, breakeven impossible'
BreakevenThrows(e) == VariableCostRate(e) >= 100

\* calculateBreakeven: Math.ceil(fixedCosts / (1 - variableCostRate)), a whole
\* number of currency units
CalculateBreakeven(e) ==
    CeilDiv(FixedCosts(e) * 100, (100 - VariableCostRate(e)) * Scale) * Scale

\* margin < constraint.value; the margin of price 0 is profit / 0: -Infinity
\* for a loss, and +Infinity or NaN, which are below nothing, otherwise
MarginIsBelow(price, e, value) ==
    IF price = 0
    THEN CalculateProfit(price, e) < 0
    ELSE CalculateMargin(price, e) < value * 100

\* checkConstraint: the type of the error, or NoRow.  value is in money units,
\* for min_margin in percent.
CheckConstraint(c, price, e) ==
    CASE c.type = "min_profit" ->
            IF CalculateProfit(price, e) * Cent < c.value
            THEN "min_profit_violated" ELSE NoRow
      [] c.type = "min_margin" ->
            IF MarginIsBelow(price, e, c.value)
            THEN "min_margin_violated" ELSE NoRow
      [] c.type = "min_price" ->
            IF price < c.value THEN "min_price_violated" ELSE NoRow
      [] c.type = "max_price" ->
            IF price > c.value THEN "max_price_exceeded" ELSE NoRow
      [] OTHER -> NoRow

\* the critical flag and the suggestedPrice of the error checkConstraint
\* returns for a violated constraint; suggestedPrice is 0 where it is not set
CheckConstraintError(c, price, e) ==
    LET type == CheckConstraint(c, price, e)
    IN  [ type           |-> type,
          critical       |-> type # "max_price_exceeded",
          suggestedPrice |->
              CASE type = "min_profit_violated" -> CalculateBreakeven(e) + c.value
                [] type \in {"min_price_violated", "max_price_exceeded"} -> c.value
                [] OTHER -> 0 ]

\* the critical flag of an error of validatePrice: only the error of
\* max_price is built with critical: false
IsCritical(type) == type # "max_price_exceeded"

\* The errors of all the constraints, enabled or not
RECURSIVE ConstraintErrorsOfAll(_, _, _)
ConstraintErrorsOfAll(constraints, price, e) ==
    IF constraints = <<>> THEN <<>>
    ELSE LET err  == CheckConstraint(Head(constraints), price, e)
             rest == ConstraintErrorsOfAll(Tail(constraints), price, e)
         IN  IF err = NoRow THEN rest ELSE <<err>> \o rest

\* the errors of the enabled constraints, in the order of the constraints
RECURSIVE ConstraintErrors(_, _, _)
ConstraintErrors(constraints, price, e) ==
    IF constraints = <<>> THEN <<>>
    ELSE LET c    == Head(constraints)
             err  == IF c.enabled THEN CheckConstraint(c, price, e) ELSE NoRow
             rest == ConstraintErrors(Tail(constraints), price, e)
         IN  IF err = NoRow THEN rest ELSE <<err>> \o rest

\* calculatePriceForMargin throws 'Cannot achieve target margin with current costs'
PriceForMarginThrows(e, targetMargin) ==
    100 - VariableCostRate(e) - targetMargin <= 0

\* calculateMinAllowedPrice throws: it reaches an enabled min_margin that
\* cannot be achieved
MinAllowedPriceThrows(e, constraints) ==
    \E k \in DOMAIN constraints :
        /\ constraints[k].enabled
        /\ constraints[k].type = "min_margin"
        /\ PriceForMarginThrows(e, constraints[k].value)

\* Math.ceil of the price a constraint asks for, in money units
CeilPriceFor(c, e) ==
    CASE c.type = "min_profit" ->
            CeilDiv((c.value + FixedCosts(e)) * 100,
                    (100 - VariableCostRate(e)) * Scale) * Scale
      [] c.type = "min_margin" ->
            CeilDiv(FixedCosts(e) * 100,
                    (100 - VariableCostRate(e) - c.value) * Scale) * Scale
      [] c.type = "min_price" -> CeilDiv(c.value, Scale) * Scale
      [] OTHER -> 0

\* The breakeven taken as the minimum allowed price, whatever the constraints
CalculateMinAllowedPriceAsBreakeven(e, constraints) == CalculateBreakeven(e)

\* calculateMinAllowedPrice: Math.ceil of the largest of the breakeven and
\* the prices the enabled minimum constraints ask for
RECURSIVE CalculateMinAllowedPrice(_, _)
CalculateMinAllowedPrice(e, constraints) ==
    IF constraints = <<>> THEN CalculateBreakeven(e)
    ELSE LET c    == constraints[Len(constraints)]
             rest == CalculateMinAllowedPrice(e, SubSeq(constraints, 1, Len(constraints) - 1))
         IN  IF c.enabled /\ c.type \in {"min_profit", "min_margin", "min_price"}
             THEN Max(rest, CeilPriceFor(c, e))
             ELSE rest

\* The validation without the unconditional breakeven check
ValidatePriceByConstraintsOnly(price, e, constraints) ==
    IF BreakevenThrows(e)
    THEN [threw |-> TRUE, valid |-> FALSE, errors |-> <<>>, profit |-> 0,
          breakeven |-> 0, minAllowedPrice |-> 0, suggestedPrice |-> 0]
    ELSE LET errors == ConstraintErrors(constraints, price, e)
         IN  IF errors # <<>> /\ MinAllowedPriceThrows(e, constraints)
             THEN [threw |-> TRUE, valid |-> FALSE, errors |-> <<>>, profit |-> 0,
                   breakeven |-> 0, minAllowedPrice |-> 0, suggestedPrice |-> 0]
             ELSE [threw           |-> FALSE,
                   valid           |-> errors = <<>>,
                   errors          |-> errors,
                   profit          |-> CalculateProfit(price, e),
                   breakeven       |-> CalculateBreakeven(e),
                   minAllowedPrice |-> IF errors = <<>> THEN 0
                                       ELSE CalculateMinAllowedPrice(e, constraints),
                   suggestedPrice  |-> IF errors = <<>> THEN 0
                                       ELSE CalculateMinAllowedPrice(e, constraints)]

\* The validation that takes a breakeven of 0 where none can be computed
ValidatePriceDefaultingBreakeven(price, e, constraints) ==
    IF BreakevenThrows(e)
    THEN [threw |-> FALSE, valid |-> TRUE, errors |-> <<>>,
          profit |-> CalculateProfit(price, e), breakeven |-> 0,
          minAllowedPrice |-> 0, suggestedPrice |-> 0]
    ELSE LET fromConstraints == ConstraintErrors(constraints, price, e)
             errors == IF price < CalculateBreakeven(e)
                       THEN Append(fromConstraints, "below_breakeven")
                       ELSE fromConstraints
         IN  [threw           |-> errors # <<>> /\ MinAllowedPriceThrows(e, constraints),
              valid           |-> errors = <<>>,
              errors          |-> errors,
              profit          |-> CalculateProfit(price, e),
              breakeven       |-> CalculateBreakeven(e),
              minAllowedPrice |-> 0, suggestedPrice |-> 0]

\* validatePrice of a finite price: threw, or the result; minAllowedPrice and
\* suggestedPrice are 0 where the source leaves them undefined
ValidatePrice(price, e, constraints) ==
    IF BreakevenThrows(e)
    THEN [threw |-> TRUE, valid |-> FALSE, errors |-> <<>>, profit |-> 0,
          breakeven |-> 0, minAllowedPrice |-> 0, suggestedPrice |-> 0]
    ELSE LET fromConstraints == ConstraintErrors(constraints, price, e)
             \* the breakeven error is added only if no error has that type yet
             errors == IF /\ price < CalculateBreakeven(e)
                          /\ \A k \in DOMAIN fromConstraints :
                                fromConstraints[k] # "below_breakeven"
                       THEN Append(fromConstraints, "below_breakeven")
                       ELSE fromConstraints
         IN  IF errors # <<>> /\ MinAllowedPriceThrows(e, constraints)
             THEN [threw |-> TRUE, valid |-> FALSE, errors |-> <<>>, profit |-> 0,
                   breakeven |-> 0, minAllowedPrice |-> 0, suggestedPrice |-> 0]
             ELSE [threw           |-> FALSE,
                   valid           |-> errors = <<>>,
                   errors          |-> errors,
                   profit          |-> CalculateProfit(price, e),
                   breakeven       |-> CalculateBreakeven(e),
                   minAllowedPrice |-> IF errors = <<>> THEN 0
                                       ELSE CalculateMinAllowedPrice(e, constraints),
                   suggestedPrice  |-> IF errors = <<>> THEN 0
                                       ELSE CalculateMinAllowedPrice(e, constraints)]

\* validatePrice of NaN: every comparison with NaN is false, so no constraint
\* and no breakeven check fails
ValidateNaN(e) ==
    IF BreakevenThrows(e)
    THEN [threw |-> TRUE, valid |-> FALSE, errors |-> <<>>, profit |-> 0,
          breakeven |-> 0, minAllowedPrice |-> 0, suggestedPrice |-> 0]
    ELSE [threw |-> FALSE, valid |-> TRUE, errors |-> <<>>, profit |-> 0,
          breakeven |-> CalculateBreakeven(e), minAllowedPrice |-> 0, suggestedPrice |-> 0]

---------------------------------------------------------------------------
(* StrategyEngine, ConditionEvaluator, ActionExecutor, built-in strategies *)

\* sku.position when the column is null
NullPosition == 0

\* what getMarketData returns when the SKU has no snapshot
DefaultMarketData ==
    [minPrice |-> 0, maxPrice |-> 0, medianPrice |-> 0, competitors |-> <<>>]

\* getMarketData: the snapshot, or the defaults
GetMarketData(skuId) ==
    IF marketData[skuId] = <<>> THEN DefaultMarketData
    ELSE marketData[skuId][Len(marketData[skuId])]

\* the context reprice builds from the SKU row it loaded
Context(sku, md) ==
    [ currentPrice |-> sku.currentPrice,
      position     |-> sku.position,
      economics    |-> ExtractEconomicsFromSKU(sku),
      marketData   |-> md ]

\* what evaluateStrategy and the strategies yield: a price, NaN, null, or an
\* exception
Proposal(price) == [kind |-> "price", price |-> price]
ProposalNaN     == [kind |-> "nan",   price |-> 0]
NoProposal      == [kind |-> "null",  price |-> 0]
Thrown          == [kind |-> "throw", price |-> 0]

RECURSIVE SortedSeq(_)
\* [...arr].sort((a, b) => a - b), of a sequence of numbers
SortedSeq(arr) ==
    IF arr = <<>> THEN <<>>
    ELSE LET k == CHOOSE i \in DOMAIN arr : \A j \in DOMAIN arr : arr[i] <= arr[j]
         IN  <<arr[k]>> \o SortedSeq([i \in 1..(Len(arr) - 1) |->
                                          IF i < k THEN arr[i] ELSE arr[i + 1]])

\* BaseStrategy.removeLowest(arr, 0.2): Math.ceil(length * 0.2) are sliced off
RemoveLowest(arr) ==
    LET sorted == SortedSeq(arr)
    IN  SubSeq(sorted, CeilDiv(Len(sorted), 5) + 1, Len(sorted))

\* BaseStrategy.median of a sequence that is not empty, doubled
TwiceMedian(arr) ==
    LET sorted == SortedSeq(arr)
        mid    == Len(sorted) \div 2
    IN  IF Len(sorted) % 2 = 0
        THEN sorted[mid] + sorted[mid + 1]
        ELSE 2 * sorted[mid + 1]

RECURSIVE GetCompetitorPrices(_)
\* CompetitiveHoldStrategy.getCompetitorPrices: competitors is always an array
GetCompetitorPrices(competitors) ==
    IF competitors = <<>> THEN <<>>
    ELSE LET c == Head(competitors)
         IN  (IF c.inStock /\ c.priceWithDiscount > 0
              THEN <<c.priceWithDiscount>> ELSE <<>>)
             \o GetCompetitorPrices(Tail(competitors))

\* The hold that takes the median price of the snapshot, 0 without one,
\* where there are no competitor prices
CompetitiveHoldAtSnapshotMedian(ctx) ==
    LET prices   == GetCompetitorPrices(ctx.marketData.competitors)
        filtered == RemoveLowest(prices)
    IN  IF prices = <<>> THEN Proposal(ctx.marketData.medianPrice)
        ELSE IF filtered = <<>> THEN ProposalNaN
        ELSE Proposal(RoundDiv(TwiceMedian(filtered), 2 * Scale) * Scale)

\* the confidence of the proposal of CompetitiveHoldStrategy.execute, in
\* tenths: 0.3 without competitor prices, 0.7 for a median within 2% of the
\* current price, 0.8 otherwise
CompetitiveHoldConfidence(ctx) ==
    LET prices   == GetCompetitorPrices(ctx.marketData.competitors)
        filtered == RemoveLowest(prices)
    IN  IF prices = <<>> THEN 3
        ELSE IF filtered # <<>>
                /\ Abs(TwiceMedian(filtered) - 2 * ctx.currentPrice) * 100
                       < 2 * 2 * ctx.currentPrice
        THEN 7
        ELSE 8

\* CompetitiveHoldStrategy.execute.  The median of no prices is NaN, and so
\* are the delta and the rounded price.
CompetitiveHold(ctx) ==
    LET prices   == GetCompetitorPrices(ctx.marketData.competitors)
        filtered == RemoveLowest(prices)
    IN  IF prices = <<>> THEN Proposal(ctx.currentPrice)
        ELSE IF filtered = <<>> THEN ProposalNaN
        ELSE IF Abs(TwiceMedian(filtered) - 2 * ctx.currentPrice) * 100
                    < 2 * 2 * ctx.currentPrice
        THEN Proposal(ctx.currentPrice)
        ELSE Proposal(RoundDiv(TwiceMedian(filtered), 2 * Scale) * Scale)

\* The price leader without the limit on a single step
PriceLeaderUnclamped(ctx) ==
    IF ctx.position # NullPosition /\ ctx.position <= 3
    THEN Proposal(ctx.currentPrice)
    ELSE Proposal(Pct(ctx.marketData.minPrice, 98))

\* PriceLeaderStrategy.execute
PriceLeader(ctx) ==
    IF ctx.position # NullPosition /\ ctx.position <= 3
    THEN Proposal(ctx.currentPrice)
    ELSE Proposal(Max(Pct(ctx.marketData.minPrice, 98),
                      ctx.currentPrice - Pct(ctx.currentPrice, 10)))

\* MarginMaximizerStrategy.execute
MarginMaximizer(ctx) ==
    IF ctx.position # NullPosition /\ ctx.position <= 5
    THEN Proposal(Min(Pct(ctx.currentPrice, 102), Pct(ctx.marketData.medianPrice, 110)))
    ELSE Proposal(ctx.currentPrice)

\* An engine that holds the price for a type it has no algorithm for
ExecuteStrategyByTypeHoldingUnknown(strategy, ctx) ==
    CASE strategy.type = "competitive_hold" -> CompetitiveHold(ctx)
      [] strategy.type = "price_leader"     -> PriceLeader(ctx)
      [] strategy.type = "margin_maximizer" -> MarginMaximizer(ctx)
      [] OTHER                              -> Proposal(ctx.currentPrice)

\* executeStrategyByType
ExecuteStrategyByType(strategy, ctx) ==
    CASE strategy.type = "competitive_hold" -> CompetitiveHold(ctx)
      [] strategy.type = "price_leader"     -> PriceLeader(ctx)
      [] strategy.type = "margin_maximizer" -> MarginMaximizer(ctx)
      [] OTHER                              -> Thrown

\* ActionExecutor.execute; a value of 0 is a missing value
ExecuteAction(action, ctx) ==
    CASE action.type = "set_price" ->
            IF action.value = 0 THEN Thrown ELSE Proposal(action.value)
      [] action.type = "increase_price" ->
            IF action.value = 0 THEN Thrown
            ELSE IF action.mode = "percentage"
            THEN Proposal(ctx.currentPrice + Pct(ctx.currentPrice, action.value))
            ELSE Proposal(ctx.currentPrice + action.value)
      [] action.type = "decrease_price" ->
            IF action.value = 0 THEN Thrown
            ELSE IF action.mode = "percentage"
            THEN Proposal(ctx.currentPrice - Pct(ctx.currentPrice, action.value))
            ELSE Proposal(ctx.currentPrice - action.value)
      [] action.type = "follow_competitor" ->
            IF action.mode = "percentage"
            THEN Proposal(Pct(ctx.marketData.minPrice, 100 - action.value))
            ELSE Proposal(ctx.marketData.minPrice - action.value)
      [] action.type = "set_to_median" -> Proposal(ctx.marketData.medianPrice)
      [] action.type = "set_to_breakeven" ->
            \* a rate of 100% or more gives Infinity or a negative price;
            \* validatePrice throws for such a rate whatever the price is
            IF VariableCostRate(ctx.economics) < 100
            THEN Proposal(CalculateBreakeven(ctx.economics))
            ELSE ProposalNaN
      [] OTHER -> Thrown

\* evaluateStopCondition
EvaluateStopCondition(sc, ctx) ==
    CASE sc.type = "price_reached"    -> ctx.currentPrice <= sc.value
      [] sc.type = "position_reached" ->
            ctx.position # NullPosition /\ ctx.position <= sc.value
      [] OTHER -> FALSE

\* checkStopConditions
CheckStopConditions(strategy, ctx) ==
    \E k \in DOMAIN strategy.stopConditions :
        EvaluateStopCondition(strategy.stopConditions[k], ctx)

\* evaluateOperator; for in and not_in the expected value is a set when it
\* is an array (isArray), and anything else fails both
EvaluateOperator(actual, c) ==
    CASE c.operator = "eq"     -> actual = c.value
      [] c.operator = "neq"    -> actual # c.value
      [] c.operator = "gt"     -> actual > c.value
      [] c.operator = "gte"    -> actual >= c.value
      [] c.operator = "lt"     -> actual < c.value
      [] c.operator = "lte"    -> actual <= c.value
      [] c.operator = "in"     -> c.isArray /\ actual \in c.value
      [] c.operator = "not_in" -> c.isArray /\ actual \notin c.value
      [] OTHER -> FALSE

\* evaluateOperator on the evaluator's own profit and margin, which are not
\* rounded: the fraction n / d (d > 0) against c.value
EvaluateFraction(n, d, c) ==
    CASE c.operator = "eq"  -> n = c.value * d
      [] c.operator = "neq" -> n # c.value * d
      [] c.operator = "gt"  -> n > c.value * d
      [] c.operator = "gte" -> n >= c.value * d
      [] c.operator = "lt"  -> n < c.value * d
      [] c.operator = "lte" -> n <= c.value * d
      [] c.operator = "not_in" -> c.isArray
      [] OTHER -> FALSE

\* The base comparison of a condition: getMetricValue and evaluateOperator.
\* value is in money units for prices and the profit, in percent for the
\* margin.  At price 0 the margin is -Infinity (the profit is a loss) or NaN.
EvaluateBase(c, ctx) ==
    CASE c.metric = "position" ->
            ctx.position # NullPosition /\ EvaluateOperator(ctx.position, c)
      [] c.metric \in {"my_price", "current_price"} ->
            EvaluateOperator(ctx.currentPrice, c)
      [] c.metric = "competitor_min_price" ->
            EvaluateOperator(ctx.marketData.minPrice, c)
      [] c.metric = "competitor_max_price" ->
            EvaluateOperator(ctx.marketData.maxPrice, c)
      [] c.metric = "competitor_median_price" ->
            EvaluateOperator(ctx.marketData.medianPrice, c)
      [] c.metric = "competitor_count" ->
            EvaluateOperator(Len(ctx.marketData.competitors), c)
      [] c.metric = "profit" ->
            EvaluateFraction(ProfitNumerator(ctx.currentPrice, ctx.economics),
                             100 * 100, c)
      [] c.metric = "margin" ->
            IF ctx.currentPrice > 0
            THEN EvaluateFraction(ProfitNumerator(ctx.currentPrice, ctx.economics),
                                  ctx.currentPrice * 100, c)
            ELSE IF ProfitNumerator(ctx.currentPrice, ctx.economics) < 0
            THEN c.operator \in {"neq", "lt", "lte"} \/ (c.operator = "not_in" /\ c.isArray)
            ELSE c.operator = "neq" \/ (c.operator = "not_in" /\ c.isArray)
      [] OTHER -> FALSE

\* whether getMetricValue yields undefined or null
MetricIsMissing(c, ctx) ==
    \/ c.metric \notin {"position", "my_price", "current_price",
                        "competitor_min_price", "competitor_max_price",
                        "competitor_median_price", "competitor_count",
                        "margin", "profit"}
    \/ c.metric = "position" /\ ctx.position = NullPosition

\* The evaluation in which one passing member of or is enough
RECURSIVE EvaluateConditionOrWins(_, _)
EvaluateConditionOrWins(c, ctx) ==
    IF MetricIsMissing(c, ctx) THEN FALSE
    ELSE IF \E k \in DOMAIN c.or : EvaluateConditionOrWins(c.or[k], ctx) THEN TRUE
    ELSE IF \E k \in DOMAIN c.and : ~EvaluateConditionOrWins(c.and[k], ctx) THEN FALSE
    ELSE EvaluateBase(c, ctx)

RECURSIVE EvaluateCondition(_, _)
\* ConditionEvaluator.evaluate: a missing metric fails; a failing member of
\* and, or no passing member of a non-empty or, fails; else the base result
EvaluateCondition(c, ctx) ==
    IF MetricIsMissing(c, ctx) THEN FALSE
    ELSE IF \E k \in DOMAIN c.and : ~EvaluateCondition(c.and[k], ctx) THEN FALSE
    ELSE IF c.or # <<>> /\ \A k \in DOMAIN c.or : ~EvaluateCondition(c.or[k], ctx)
    THEN FALSE
    ELSE EvaluateBase(c, ctx)

\* StrategyEngine.evaluateConditions: all of them
EvaluateConditions(conditions, ctx) ==
    \A k \in DOMAIN conditions : EvaluateCondition(conditions[k], ctx)

\* The evaluation that does not look at strategy.active
EvaluateStrategyIgnoringActive(ctx, strategy) ==
    IF CheckStopConditions(strategy, ctx) THEN NoProposal
    ELSE IF ~EvaluateConditions(strategy.conditions, ctx) THEN NoProposal
    ELSE IF strategy.actions # <<>>
    THEN ExecuteAction(strategy.actions[1], ctx)
    ELSE ExecuteStrategyByType(strategy, ctx)

\* The evaluation that does not look at the stop conditions
EvaluateStrategyIgnoringStopConditions(ctx, strategy) ==
    IF ~strategy.active THEN NoProposal
    ELSE IF ~EvaluateConditions(strategy.conditions, ctx) THEN NoProposal
    ELSE IF strategy.actions # <<>>
    THEN ExecuteAction(strategy.actions[1], ctx)
    ELSE ExecuteStrategyByType(strategy, ctx)

\* The evaluation that executes the last action of the list
EvaluateStrategyByLastAction(ctx, strategy) ==
    IF ~strategy.active THEN NoProposal
    ELSE IF CheckStopConditions(strategy, ctx) THEN NoProposal
    ELSE IF ~EvaluateConditions(strategy.conditions, ctx) THEN NoProposal
    ELSE IF strategy.actions # <<>>
    THEN ExecuteAction(strategy.actions[Len(strategy.actions)], ctx)
    ELSE ExecuteStrategyByType(strategy, ctx)

\* StrategyEngine.evaluateStrategy
EvaluateStrategy(ctx, strategy) ==
    IF ~strategy.active THEN NoProposal
    ELSE IF CheckStopConditions(strategy, ctx) THEN NoProposal
    ELSE IF ~EvaluateConditions(strategy.conditions, ctx) THEN NoProposal
    ELSE IF strategy.actions # <<>>
    THEN ExecuteAction(strategy.actions[1], ctx)
    ELSE ExecuteStrategyByType(strategy, ctx)

---------------------------------------------------------------------------
(* Signals *)

\* the signal types the data fetcher raises
SignalTypes == {"competitor_price_drop", "competitor_price_rise"}

\* SIGNAL_PRIORITIES[type] || 5
SignalPriority(type) ==
    CASE type = "competitor_oos"          -> 10
      [] type = "low_stock"               -> 9
      [] type = "below_breakeven"         -> 9
      [] type = "competitor_price_drop"   -> 8
      [] type = "position_drop"           -> 7
      [] type = "cost_change"             -> 7
      [] type = "sales_drop"              -> 6
      [] type = "margin_drop"             -> 6
      [] type = "competitor_price_rise"   -> 5
      [] type = "position_rise"           -> 5
      [] type = "sales_spike"             -> 4
      [] type = "new_competitor"          -> 4
      [] type = "competitor_count_change" -> 3
      [] type = "high_stock"              -> 3
      [] type = "time_interval"           -> 1
      [] type = "strategy_timeout"        -> 1
      [] OTHER                            -> 5

DEFAULT_COOLDOWN_MINUTES == 360

\* minutes in a day: today.setHours(0, 0, 0, 0) is the last multiple of it
MinutesPerDay == 1440

\* the sweep's limit: getUnprocessedSignals(50)
SweepLimit == 50

\* the clock starts at 06:00 of the second day and runs for MaxTicks minutes
InitNow  == 1800
MaxTicks == 1
\* at most this many signals are created in a run
MaxSignals == 2

StartOfDay(t) == (t \div MinutesPerDay) * MinutesPerDay

\* SignalProcessor.createSignal
NewSignal(skuId, type) ==
    [ skuId     |-> skuId,
      type      |-> type,
      priority  |-> SignalPriority(type),
      processed |-> FALSE,
      createdAt |-> now ]

\* orderBy: [{ priority: 'desc' }, { createdAt: 'asc' }]; rows equal in both
\* come in creation order
RanksBefore(j, i) ==
    \/ signals[j].priority > signals[i].priority
    \/ /\ signals[j].priority = signals[i].priority
       /\ signals[j].createdAt < signals[i].createdAt
    \/ /\ signals[j].priority = signals[i].priority
       /\ signals[j].createdAt = signals[i].createdAt
       /\ j < i

\* The unprocessed ids in order of creation alone, cut at the limit
GetUnprocessedSignalsByCreation(limit) ==
    LET un      == {i \in DOMAIN signals : ~signals[i].processed}
        rank(i) == Cardinality({j \in un : j < i})
        n       == IF Cardinality(un) < limit THEN Cardinality(un) ELSE limit
    IN  [k \in 1..n |-> CHOOSE i \in un : rank(i) = k - 1]

\* SignalProcessor.getUnprocessedSignals(limit): the ids, in order
GetUnprocessedSignals(limit) ==
    LET un      == {i \in DOMAIN signals : ~signals[i].processed}
        rank(i) == Cardinality({j \in un : RanksBefore(j, i)})
        n       == IF Cardinality(un) < limit THEN Cardinality(un) ELSE limit
    IN  [k \in 1..n |-> CHOOSE i \in un : rank(i) = k - 1]

\* the rows of price_history of a SKU
HistoryOf(skuId) == {k \in DOMAIN priceHistory : priceHistory[k].skuId = skuId}

\* priceHistory.findFirst({ where: { skuId }, orderBy: { time: 'desc' } }).time
LastChangeTime(skuId) ==
    LET times == {priceHistory[k].time : k \in HistoryOf(skuId)}
    IN  CHOOSE t \in times : \A u \in times : u <= t

\* The changes of the SKU in the last hour, whatever the day began
ChangesInLastHour(skuId, today) ==
    Cardinality({k \in HistoryOf(skuId) : priceHistory[k].time >= now - 60})

\* priceHistory.count({ where: { skuId, time: { gte: today } } })
ChangesSince(skuId, today) ==
    Cardinality({k \in HistoryOf(skuId) : priceHistory[k].time >= today})

\* skuStrategy?.strategy.cooldownMinutes || DEFAULT_COOLDOWN_MINUTES, for the
\* attachment findFirst returned (NoRow: none)
CooldownPeriod(strategyId) ==
    IF strategyId = NoRow \/ strategies[strategyId].cooldownMinutes = 0
    THEN DEFAULT_COOLDOWN_MINUTES
    ELSE strategies[strategyId].cooldownMinutes

\* what sKUStrategy.findFirst({ where: { skuId, active: true } }) may return
FindActiveAttachment(skuId) ==
    IF ActiveStrategies(skuStrategies, skuId) = {}
    THEN {NoRow}
    ELSE ActiveStrategies(skuStrategies, skuId)

\* The interest gate with the allow-list consulted first
ShouldStrategyReactAllowFirst(strategy, type) ==
    IF type \in strategy.allowedSignals
    THEN TRUE
    ELSE strategy.allowedSignals = {} /\ type \notin strategy.ignoredSignals

\* SignalProcessor.shouldStrategyReact
ShouldStrategyReact(strategy, type) ==
    IF type \in strategy.ignoredSignals
    THEN FALSE
    ELSE IF strategy.allowedSignals # {}
         THEN type \in strategy.allowedSignals
         ELSE TRUE

\* logged is the last line processSignal logged in the run
IdleSweep ==
    [pc |-> "idle", batch |-> <<>>, i |-> 0, lastChange |-> 0,
     strategyId |-> NoRow, today |-> 0, logged |-> "-"]

\* the signal a sweep is processing
CurrentSignal(w) == sweeps[w].batch[sweeps[w].i]

\* processSignal logged line and returned: the sweep's loop goes on to the
\* next signal of its batch, or ends
AfterReturn(sw, line) ==
    IF sw.i < Len(sw.batch)
    THEN [IdleSweep EXCEPT !.pc = "checkCooldown", !.batch = sw.batch,
                           !.i = sw.i + 1, !.logged = line]
    ELSE [IdleSweep EXCEPT !.logged = line]

---------------------------------------------------------------------------
(* Scheduler.processUnprocessedSignals and SignalProcessor.processSignal,   *)
(* one action per await                                                     *)

createSignal(skuId, type) ==
    /\ Len(signals) < MaxSignals
    /\ signals' = Append(signals, NewSignal(skuId, type))
    /\ UNCHANGED <<repVars, skus, strategies, skuStrategies, reqs, priceHistory, now,
                   sweeps, approvedLog>>

\* the cron task fires: fetch the batch; an empty batch ends the run
processUnprocessedSignals(w) ==
    /\ sweeps[w].pc = "idle"
    /\ LET batch == GetUnprocessedSignals(SweepLimit)
       IN  /\ batch # <<>>
           /\ sweeps' = [sweeps EXCEPT ![w] =
                 [IdleSweep EXCEPT !.pc = "checkCooldown", !.batch = batch, !.i = 1]]
    /\ UNCHANGED <<repVars, skus, strategies, skuStrategies, reqs, signals, priceHistory,
                   now, approvedLog>>

\* checkCooldown: the last change of the SKU; none lets the signal through
processSignal_checkCooldown(w) ==
    /\ sweeps[w].pc = "checkCooldown"
    /\ LET skuId == signals[CurrentSignal(w)].skuId
       IN  sweeps' = [sweeps EXCEPT ![w] =
              IF HistoryOf(skuId) = {}
              THEN [@ EXCEPT !.pc = "findSKU"]
              ELSE [@ EXCEPT !.pc = "getCooldownPeriod",
                             !.lastChange = LastChangeTime(skuId)]]
    /\ UNCHANGED <<repVars, skus, strategies, skuStrategies, reqs, signals, priceHistory,
                   now, approvedLog>>

\* getCooldownPeriod, then timeSince >= cooldownPeriod
processSignal_getCooldownPeriod(w) ==
    /\ sweeps[w].pc = "getCooldownPeriod"
    /\ \E a \in FindActiveAttachment(signals[CurrentSignal(w)].skuId) :
          sweeps' = [sweeps EXCEPT ![w] =
              IF now - sweeps[w].lastChange >= CooldownPeriod(a)
              THEN [@ EXCEPT !.pc = "findSKU"]
              ELSE AfterReturn(@, "in cooldown")]
    /\ UNCHANGED <<repVars, skus, strategies, skuStrategies, reqs, signals, priceHistory,
                   now, approvedLog>>

\* the SKU with its active attachments; the activity and the interest gate
processSignal_findSKU(w) ==
    /\ sweeps[w].pc = "findSKU"
    /\ LET sig == signals[CurrentSignal(w)]
       IN  \E a \in FindActiveAttachment(sig.skuId) :
             sweeps' = [sweeps EXCEPT ![w] =
               IF sig.skuId \notin DOMAIN skus \/ ~skus[sig.skuId].active
               THEN AfterReturn(@, "not found or inactive")
               ELSE IF a = NoRow
               THEN AfterReturn(@, "no active strategy")
               ELSE IF ~ShouldStrategyReact(strategies[a], sig.type)
               THEN AfterReturn(@, "ignores signal")
               ELSE [@ EXCEPT !.pc = "countChanges", !.strategyId = a,
                              !.today = StartOfDay(now)]]
    /\ UNCHANGED <<repVars, skus, strategies, skuStrategies, reqs, signals, priceHistory,
                   now, approvedLog>>

\* getChangesCountToday and the rate gate; a signal that passes is logged as
\* approved (queueing the reprice is a TODO in the source)
processSignal_countChanges(w) ==
    /\ sweeps[w].pc = "countChanges"
    /\ LET sig == signals[CurrentSignal(w)]
       IN  IF ChangesSince(sig.skuId, sweeps[w].today)
                >= strategies[sweeps[w].strategyId].maxChangesPerDay
           THEN /\ sweeps' = [sweeps EXCEPT ![w] =
                                  AfterReturn(@, "reached max changes per day")]
                /\ UNCHANGED approvedLog
           ELSE /\ sweeps' = [sweeps EXCEPT ![w].pc = "markProcessed"]
                /\ approvedLog' = Append(approvedLog, CurrentSignal(w))
    /\ UNCHANGED <<repVars, skus, strategies, skuStrategies, reqs, signals, priceHistory, now>>

\* prisma.signal.update({ data: { processed: true } })
processSignal_markProcessed(w) ==
    /\ sweeps[w].pc = "markProcessed"
    /\ signals' = [signals EXCEPT ![CurrentSignal(w)].processed = TRUE]
    /\ sweeps' = [sweeps EXCEPT ![w] = AfterReturn(@, "approved for reprice")]
    /\ UNCHANGED <<repVars, skus, strategies, skuStrategies, reqs, priceHistory, now,
                   approvedLog>>

Tick ==
    /\ now < InitNow + MaxTicks
    /\ now' = now + 1
    /\ UNCHANGED <<repVars, skus, strategies, skuStrategies, reqs, signals, priceHistory,
                   sweeps, approvedLog>>

---------------------------------------------------------------------------
(* Strategy controller: attachToSKU and activateForSKU, one action per await *)

\* prisma.strategy.findFirst({ where: { id, userId } })
FindStrategyOfUser(id, userId) ==
    id \in DOMAIN strategies /\ strategies[id].userId = userId

\* prisma.sKU.findFirst({ where: { id: skuId, userId } })
FindSKUOfUser(skuId, userId) ==
    skuId \in DOMAIN skus /\ skus[skuId].userId = userId

Respond(r, status) ==
    reqs' = [reqs EXCEPT ![r].pc = "done", ![r].status = status]

activateForSKU_findStrategy(r, userId, id, skuId) ==
    /\ reqs[r].pc \in {"idle", "done"}
    /\ reqs' = [reqs EXCEPT ![r] =
            IF FindStrategyOfUser(id, userId)
            THEN [pc |-> "updateMany", op |-> "activate", userId |-> userId,
                  id |-> id, skuId |-> skuId, status |-> 0]
            ELSE [pc |-> "done", op |-> "activate", userId |-> userId,
                  id |-> id, skuId |-> skuId, status |-> 404]]
    /\ UNCHANGED <<skuStrategies, dbVars>>

activateForSKU_updateMany(r) ==
    /\ reqs[r].op = "activate" /\ reqs[r].pc = "updateMany"
    /\ skuStrategies' = DeactivateAll(skuStrategies, reqs[r].skuId)
    /\ reqs' = [reqs EXCEPT ![r].pc = "upsert"]
    /\ UNCHANGED dbVars

\* a skuId that is no row of skus violates the foreign key: the upsert throws
\* and the catch block answers 500
activateForSKU_upsert(r) ==
    /\ reqs[r].op = "activate" /\ reqs[r].pc = "upsert"
    /\ IF reqs[r].skuId \in DOMAIN skus
       THEN /\ skuStrategies' =
                 Upsert(skuStrategies, reqs[r].skuId, reqs[r].id, Active, Active)
            /\ Respond(r, 200)
       ELSE /\ UNCHANGED skuStrategies
            /\ Respond(r, 500)
    /\ UNCHANGED dbVars

attachToSKU_findStrategy(r, userId, id, skuId) ==
    /\ reqs[r].pc \in {"idle", "done"}
    /\ reqs' = [reqs EXCEPT ![r] =
            IF FindStrategyOfUser(id, userId)
            THEN [pc |-> "findSKU", op |-> "attach", userId |-> userId,
                  id |-> id, skuId |-> skuId, status |-> 0]
            ELSE [pc |-> "done", op |-> "attach", userId |-> userId,
                  id |-> id, skuId |-> skuId, status |-> 404]]
    /\ UNCHANGED <<skuStrategies, dbVars>>

attachToSKU_findSKU(r) ==
    /\ reqs[r].op = "attach" /\ reqs[r].pc = "findSKU"
    /\ IF FindSKUOfUser(reqs[r].skuId, reqs[r].userId)
       THEN reqs' = [reqs EXCEPT ![r].pc = "upsert"]
       ELSE Respond(r, 404)
    /\ UNCHANGED <<skuStrategies, dbVars>>

attachToSKU_upsert(r) ==
    /\ reqs[r].op = "attach" /\ reqs[r].pc = "upsert"
    /\ skuStrategies' =
          Upsert(skuStrategies, reqs[r].skuId, reqs[r].id, Inactive, NoRow)
    /\ Respond(r, 200)
    /\ UNCHANGED dbVars

\* no activateForSKU request other than r is between its first and last write
NoOtherActivationInFlight(r) ==
    \A q \in ReqIds \ {r} :
        ~(reqs[q].op = "activate" /\ reqs[q].pc \in {"updateMany", "upsert"})

---------------------------------------------------------------------------
(* The reprice queue, its worker and RepriceOrchestrator.reprice, one      *)
(* action per await.  A NaN goes to the database as null: the nullable     *)
(* skus.currentPrice takes it, the required price_history.price does not.  *)

\* defaultJobOptions.attempts of the reprice queue
Attempts == 3

\* the worker's concurrency
WorkerConcurrency == 5

\* the messages of the errors the engines throw
BreakevenImpossible == "Variable costs >= 100%, breakeven impossible"
MarginUnreachable   == "Cannot achieve target margin with current costs"
StorageError        == "storage error"

\* a RepriceResult.  kind "none": reprice has not returned; "thrown": an
\* exception left reprice.  validationErrors is set where hasValidationErrors.
NoResult ==
    [ kind                |-> "none",
      success             |-> FALSE,
      oldPrice            |-> 0,
      newPrice            |-> 0,
      error               |-> NoRow,
      reason              |-> NoRow,
      hasValidationErrors |-> FALSE,
      validationErrors    |-> <<>> ]

\* { success: false, skuId, oldPrice, error }
Failed(oldPrice, error) ==
    [NoResult EXCEPT !.kind = "returned", !.oldPrice = oldPrice, !.error = error]

\* { success: false, skuId, oldPrice, reason: 'Strategy did not produce ...' }
WithoutProposal(oldPrice) ==
    [NoResult EXCEPT !.kind = "returned", !.oldPrice = oldPrice,
                     !.reason = "Strategy did not produce a price proposal"]

\* { success: false, skuId, oldPrice, reason, validationErrors }
Rejected(oldPrice, errors) ==
    [NoResult EXCEPT !.kind = "returned", !.oldPrice = oldPrice,
                     !.reason = "Price rejected by economics",
                     !.hasValidationErrors = TRUE, !.validationErrors = errors]

\* { success: true, skuId, oldPrice, newPrice, reason }
Succeeded(oldPrice, newPrice) ==
    [NoResult EXCEPT !.kind = "returned", !.success = TRUE, !.oldPrice = oldPrice,
                     !.newPrice = newPrice, !.reason = "proposal"]

\* The exception leaves reprice as it came
Uncaught(message) ==
    [NoResult EXCEPT !.kind = "thrown", !.error = message]

\* the catch of reprice: { success: false, skuId, oldPrice: 0, error: error.message }
Caught(message) ==
    [NoResult EXCEPT !.kind = "returned", !.error = message]

\* Number(sku.currentPrice) || 0; a null price is kept as 0
OldPrice(sku) == sku.currentPrice

\* the tables as a call of reprice finds them (kept for the statements about
\* what a call has written; the code does not read it)
NoSnapshot == [price |-> 0, history |-> 0, rejections |-> 0]

Snapshot(skuId) ==
    [ price      |-> IF skuId \in DOMAIN skus THEN skus[skuId].currentPrice ELSE 0,
      history    |-> Len(priceHistory),
      rejections |-> Len(priceRejections) ]

NoJob ==
    [ state        |-> "absent",
      skuId        |-> NoRow,
      signalId     |-> 0,
      signalType   |-> NoRow,
      attemptsMade |-> 0,
      pc           |-> "-",
      sku          |-> DefaultSKU(NoRow),
      strategyId   |-> NoRow,
      proposal     |-> NoProposal,
      errors       |-> <<>>,
      profit       |-> 0,
      outcome      |-> NoResult,
      before       |-> NoSnapshot,
      result       |-> "-" ]

\* queueManager.addRepriceJob(payload)
NewJob(skuId) == [NoJob EXCEPT !.state = "waiting", !.skuId = skuId]

\* The processor threw and the queue gives the job up at once
JobFailsForGood(job) ==
    [job EXCEPT !.state        = "failed",
                !.attemptsMade = job.attemptsMade + 1,
                !.pc           = "-",
                !.sku          = NoJob.sku,
                !.before       = NoSnapshot,
                !.result       = "error"]

\* the processor threw: BullMQ retries the job until attempts are used up
JobThrows(job) ==
    [job EXCEPT !.state        = IF job.attemptsMade + 1 < Attempts
                                 THEN "waiting" ELSE "failed",
                !.attemptsMade = job.attemptsMade + 1,
                !.pc           = "-",
                !.sku          = NoJob.sku,
                !.before       = NoSnapshot,
                !.result       = "error"]

\* the processor returned
JobCompletes(job, result) ==
    [job EXCEPT !.state  = "completed",
                !.attemptsMade = job.attemptsMade + 1,
                !.pc     = "-",
                !.sku    = NoJob.sku,
                !.before = NoSnapshot,
                !.result = result]

\* the steps of reprice, and those of the worker around it
RepriceSteps == {"getSKU", "getActiveStrategy", "getMarketData", "logRejection",
                 "update", "history"}

\* between loading the SKU and the end of the commit
InFlight(job) ==
    job.state = "active"
        /\ job.pc \in {"getActiveStrategy", "getMarketData", "logRejection",
                       "update", "history"}

\* reprice hands its result to the worker: an exception, or a failure without
\* validationErrors, is thrown on; a rejection ends the job; after a success
\* the worker loads the SKU with its user
Returns(job, result) ==
    LET done == [job EXCEPT !.outcome = result]
    IN  IF result.kind = "thrown" THEN JobThrows(done)
        ELSE IF ~result.success
        THEN IF result.hasValidationErrors
             THEN JobCompletes(done, "validation_failed")
             ELSE JobThrows(done)
        ELSE [done EXCEPT !.pc = "findSKU", !.result = "success"]

\* the worker calls orchestrator.reprice(skuId, signal)
CallsReprice(job, signalType) ==
    [job EXCEPT !.pc = "getSKU", !.signalType = signalType,
                !.outcome = NoResult, !.before = Snapshot(job.skuId)]

\* the message evaluateStrategy throws with: that of ActionExecutor.execute
\* for the first action, or that of executeStrategyByType
StrategyError(strategy) ==
    IF strategy.actions # <<>>
    THEN IF strategy.actions[1].type \in {"set_price", "increase_price", "decrease_price"}
         THEN "Action \"" \o strategy.actions[1].type \o "\" requires a value"
         ELSE "Unknown action type: " \o strategy.actions[1].type
    ELSE "Unknown strategy type: " \o strategy.type

\* the message validatePrice throws with
ValidationMessage(e) ==
    IF BreakevenThrows(e) THEN BreakevenImpossible ELSE MarginUnreachable

\* The row of price_history without the type of the signal
HistoryRowWithoutSignal(job) ==
    [ skuId      |-> job.skuId,
      price      |-> job.proposal.price,
      strategyId |-> job.strategyId,
      signalType |-> NoRow,
      profit     |-> job.profit,
      time       |-> now ]

\* the data of priceHistory.create: the new price, activeStrategy.id,
\* signal?.type and validation.profit, at the time of the insert
HistoryRow(job) ==
    [ skuId      |-> job.skuId,
      price      |-> job.proposal.price,
      strategyId |-> job.strategyId,
      signalType |-> job.signalType,
      profit     |-> job.profit,
      time       |-> now ]

\* POST /skus/:id/reprice: the owner's SKU with an active attachment gets a
\* job; 404 and 400 leave everything as it is
triggerReprice(j, userId, skuId) ==
    /\ jobs[j].state = "absent"
    /\ FindSKUOfUser(skuId, userId)
    /\ ActiveStrategies(skuStrategies, skuId) # {}
    /\ jobs' = [jobs EXCEPT ![j] = NewJob(skuId)]
    /\ UNCHANGED <<skus, strategies, skuStrategies, reqs, engine, sigVars, priceHistory, now,
                   marketData, priceRejections, wb, users>>

\* queueManager.addRepriceJob({ skuId, signalId }), whoever calls it
addRepriceJob(j, skuId, signalId) ==
    /\ jobs[j].state = "absent"
    /\ jobs' = [jobs EXCEPT ![j] = [NewJob(skuId) EXCEPT !.signalId = signalId]]
    /\ UNCHANGED <<skus, strategies, skuStrategies, reqs, engine, sigVars, priceHistory, now,
                   marketData, priceRejections, wb, users>>

\* the worker takes a waiting job; without a signalId the first await is that
\* of reprice
worker_process(j) ==
    /\ jobs[j].state = "waiting"
    /\ Cardinality({k \in JobIds : jobs[k].state = "active"}) < WorkerConcurrency
    /\ jobs' = [jobs EXCEPT ![j] =
          IF jobs[j].signalId # 0
          THEN [@ EXCEPT !.state = "active", !.pc = "findSignal"]
          ELSE CallsReprice([@ EXCEPT !.state = "active"], NoRow)]
    /\ UNCHANGED <<skus, strategies, skuStrategies, reqs, engine, sigVars, priceHistory, now,
                   marketData, priceRejections, wb, users>>

\* prisma.signal.findUnique({ where: { id: signalId } }): the row, or null
worker_findSignal(j) ==
    /\ jobs[j].state = "active" /\ jobs[j].pc = "findSignal"
    /\ jobs' = [jobs EXCEPT ![j] =
          CallsReprice(@, IF jobs[j].signalId \in DOMAIN signals
                          THEN signals[jobs[j].signalId].type ELSE NoRow)]
    /\ UNCHANGED <<skus, strategies, skuStrategies, reqs, engine, sigVars, priceHistory, now,
                   marketData, priceRejections, wb, users>>

\* an await of reprice rejects: the catch turns it into a result
reprice_storageError(j) ==
    /\ jobs[j].state = "active" /\ jobs[j].pc \in RepriceSteps
    /\ jobs' = [jobs EXCEPT ![j] = Returns(@, Caught(StorageError))]
    /\ UNCHANGED <<skus, strategies, skuStrategies, reqs, engine, sigVars, priceHistory, now,
                   marketData, priceRejections, wb, users>>

\* getSKU; 'SKU not found' and 'SKU is not active' come back as errors, which
\* the worker throws
reprice_getSKU(j) ==
    /\ jobs[j].state = "active" /\ jobs[j].pc = "getSKU"
    /\ jobs' = [jobs EXCEPT ![j] =
          IF jobs[j].skuId \notin DOMAIN skus
          THEN Returns(@, Failed(0, "SKU not found"))
          ELSE IF ~skus[jobs[j].skuId].active
          THEN Returns(@, Failed(OldPrice(skus[jobs[j].skuId]), "SKU is not active"))
          ELSE [@ EXCEPT !.pc = "getActiveStrategy", !.sku = skus[jobs[j].skuId]]]
    /\ UNCHANGED <<skus, strategies, skuStrategies, reqs, engine, sigVars, priceHistory, now,
                   marketData, priceRejections, wb, users>>

\* getActiveStrategy; 'No active strategy found' is an error as well
reprice_getActiveStrategy(j) ==
    /\ jobs[j].state = "active" /\ jobs[j].pc = "getActiveStrategy"
    /\ \E a \in FindActiveAttachment(jobs[j].skuId) :
          jobs' = [jobs EXCEPT ![j] =
              IF a = NoRow
              THEN Returns(@, Failed(OldPrice(jobs[j].sku), "No active strategy found"))
              ELSE [@ EXCEPT !.pc = "getMarketData", !.strategyId = a]]
    /\ UNCHANGED <<skus, strategies, skuStrategies, reqs, engine, sigVars, priceHistory, now,
                   marketData, priceRejections, wb, users>>

\* getMarketData, evaluateStrategy and validatePrice.  No proposal comes back
\* with a reason and no validation errors, so the worker throws for it too.
reprice_getMarketData(j) ==
    /\ jobs[j].state = "active" /\ jobs[j].pc = "getMarketData"
    /\ LET job        == jobs[j]
           strategy   == strategies[job.strategyId]
           ctx        == Context(job.sku, GetMarketData(job.skuId))
           proposal   == EvaluateStrategy(ctx, strategy)
           validation == IF proposal.kind = "nan"
                         THEN ValidateNaN(ctx.economics)
                         ELSE ValidatePrice(proposal.price, ctx.economics,
                                            strategy.constraints)
       IN  jobs' = [jobs EXCEPT ![j] =
              IF proposal.kind = "throw" THEN Returns(@, Caught(StrategyError(strategy)))
              ELSE IF proposal.kind = "null"
              THEN Returns(@, WithoutProposal(OldPrice(job.sku)))
              ELSE IF validation.threw
              THEN Returns(@, Caught(ValidationMessage(ctx.economics)))
              ELSE [@ EXCEPT !.pc       = IF validation.valid THEN "update"
                                          ELSE "logRejection",
                             !.proposal = proposal,
                             !.errors   = validation.errors,
                             !.profit   = validation.profit]]
    /\ UNCHANGED <<skus, strategies, skuStrategies, reqs, engine, sigVars, priceHistory, now,
                   marketData, priceRejections, wb, users>>

\* logRejection; the result carries validationErrors, so the worker returns
reprice_logRejection(j) ==
    /\ jobs[j].state = "active" /\ jobs[j].pc = "logRejection"
    /\ priceRejections' = Append(priceRejections,
          [skuId |-> jobs[j].skuId, proposedPrice |-> jobs[j].proposal.price,
           rejectionReason |-> "Economics validation failed",
           validationErrors |-> jobs[j].errors])
    /\ jobs' = [jobs EXCEPT ![j] =
          Returns(@, Rejected(OldPrice(jobs[j].sku), jobs[j].errors))]
    /\ UNCHANGED <<skus, strategies, skuStrategies, reqs, engine, sigVars, priceHistory, now,
                   marketData, wb, users>>

\* prisma.sKU.update({ data: { currentPrice: newPrice } }); null reads as 0
reprice_update(j) ==
    /\ jobs[j].state = "active" /\ jobs[j].pc = "update"
    /\ skus' = [skus EXCEPT ![jobs[j].skuId].currentPrice =
                   IF jobs[j].proposal.kind = "nan" THEN 0 ELSE jobs[j].proposal.price]
    /\ jobs' = [jobs EXCEPT ![j].pc = "history"]
    /\ UNCHANGED <<strategies, skuStrategies, reqs, engine, sigVars, priceHistory, now,
                   marketData, priceRejections, wb, users>>

\* prisma.priceHistory.create; reprice then returns success: true and the
\* worker goes on to the marketplace
reprice_history(j) ==
    /\ jobs[j].state = "active" /\ jobs[j].pc = "history"
    /\ IF jobs[j].proposal.kind = "nan"
       THEN /\ jobs' = [jobs EXCEPT ![j] = Returns(@, Caught(StorageError))]
            /\ UNCHANGED priceHistory
       ELSE /\ priceHistory' = Append(priceHistory, HistoryRow(jobs[j]))
            /\ jobs' = [jobs EXCEPT ![j] =
                  Returns(@, Succeeded(OldPrice(jobs[j].sku), jobs[j].proposal.price))]
    /\ UNCHANGED <<skus, strategies, skuStrategies, reqs, engine, sigVars, now,
                   marketData, priceRejections, wb, users>>

\* sKU.findUnique({ include: { user: true } }); without a key, or with a new
\* price of 0, nothing is pushed
worker_findSKU(j) ==
    /\ jobs[j].state = "active" /\ jobs[j].pc = "findSKU"
    /\ jobs' = [jobs EXCEPT ![j] =
          IF /\ jobs[j].skuId \in DOMAIN skus
             /\ users[skus[jobs[j].skuId].userId].wbApiKey
             /\ jobs[j].outcome.newPrice # 0
          THEN [@ EXCEPT !.pc = "setPrice"]
          ELSE JobCompletes(@, "success")]
    /\ UNCHANGED <<skus, strategies, skuStrategies, reqs, engine, sigVars, priceHistory, now,
                   marketData, priceRejections, wb, users>>

\* wbClient.setPrice: the marketplace takes the price, or the call fails
worker_setPrice(j) ==
    /\ jobs[j].state = "active" /\ jobs[j].pc = "setPrice"
    /\ \E ok \in BOOLEAN :
          IF ok
          THEN /\ wb' = [wb EXCEPT ![jobs[j].skuId] = jobs[j].outcome.newPrice]
               /\ jobs' = [jobs EXCEPT ![j] = JobCompletes(@, "success")]
          ELSE /\ UNCHANGED wb
               /\ jobs' = [jobs EXCEPT ![j].pc = "rollback"]
    /\ UNCHANGED <<skus, strategies, skuStrategies, reqs, engine, sigVars, priceHistory, now,
                   marketData, priceRejections, users>>

\* the rollback to result.oldPrice, and the throw
worker_rollback(j) ==
    /\ jobs[j].state = "active" /\ jobs[j].pc = "rollback"
    /\ skus' = [skus EXCEPT ![jobs[j].skuId].currentPrice = jobs[j].outcome.oldPrice]
    /\ jobs' = [jobs EXCEPT ![j] = JobThrows(@)]
    /\ UNCHANGED <<strategies, skuStrategies, reqs, engine, sigVars, priceHistory, now,
                   marketData, priceRejections, wb, users>>

---------------------------------------------------------------------------
(* Specifications of the attachment handlers *)

\* sku_strategies as a run of the handlers one after the other leaves it:
\* any rows, at most one of them active per SKU
AttachmentTables ==
    {t \in [SKUIds \X StrategyIds -> {NoRow, Inactive, Active}] :
        \A s \in SKUIds : Cardinality(ActiveStrategies(t, s)) <= 1}

InitAttach ==
    /\ skus = [s \in SKUIds |-> DefaultSKU(IF s = "s1" THEN "u1" ELSE "u2")]
    /\ strategies = [id \in StrategyIds |-> DefaultStrategy("u1")]
    /\ skuStrategies \in AttachmentTables
    /\ reqs = [r \in ReqIds |-> IdleReq]
    /\ signals = <<>>
    /\ priceHistory = <<>>
    /\ now = InitNow
    /\ sweeps = [w \in SweepIds |-> IdleSweep]
    /\ approvedLog = <<>>
    /\ marketData = [s \in SKUIds |-> <<>>]
    /\ priceRejections = <<>>
    /\ jobs = [j \in JobIds |-> NoJob]
    /\ wb = [s \in SKUIds |-> DefaultSKU("u1").currentPrice]
    /\ users = [u \in Users |-> [wbApiKey |-> TRUE]]
    /\ engine = NoCall

RequestBodies == SKUIds \cup {MissingSKU}

NextAttach ==
    \E r \in ReqIds :
        \/ \E u \in Users, id \in StrategyIds, s \in RequestBodies :
               activateForSKU_findStrategy(r, u, id, s)
        \/ activateForSKU_updateMany(r)
        \/ activateForSKU_upsert(r)
        \/ \E u \in Users, id \in StrategyIds, s \in RequestBodies :
               attachToSKU_findStrategy(r, u, id, s)
        \/ attachToSKU_findSKU(r)
        \/ attachToSKU_upsert(r)

SpecAttach == InitAttach /\ [][NextAttach]_vars

\* the same handlers when no two activateForSKU requests overlap
NextAttachSerial ==
    \E r \in ReqIds :
        \/ \E u \in Users, id \in StrategyIds, s \in RequestBodies :
               /\ NoOtherActivationInFlight(r)
               /\ activateForSKU_findStrategy(r, u, id, s)
        \/ activateForSKU_updateMany(r)
        \/ activateForSKU_upsert(r)
        \/ \E u \in Users, id \in StrategyIds, s \in RequestBodies :
               attachToSKU_findStrategy(r, u, id, s)
        \/ attachToSKU_findSKU(r)
        \/ attachToSKU_upsert(r)

SpecAttachSerial == InitAttach /\ [][NextAttachSerial]_vars

---------------------------------------------------------------------------
(* Specifications of the signal processor and its sweep *)

\* a row of price_history
HistoryEntry(skuId, time) ==
    [skuId      |-> skuId,
     price      |-> DefaultSKU("u1").currentPrice,
     strategyId |-> "A",
     signalType |-> NoRow,
     profit     |-> CalculateProfit(DefaultSKU("u1").currentPrice,
                                    ExtractEconomicsFromSKU(DefaultSKU("u1"))),
     time       |-> time]

\* the times of earlier commits a run may start with: yesterday 23:59, and
\* today 00:01 (359 minutes before the start), 04:01 and 05:59
HistoryTimes == {InitNow - 361, InitNow - 359, InitNow - 119, InitNow - 1}

RECURSIVE AscendingSeq(_)
\* the elements of a set of numbers, in ascending order
AscendingSeq(S) ==
    IF S = {} THEN <<>>
    ELSE LET m == CHOOSE x \in S : \A y \in S : x <= y
         IN  <<m>> \o AscendingSeq(S \ {m})

\* price_history as earlier commits left it: rows of s1 in time order, with or
\* without a row of s2 after them
Histories ==
    LET own(T) == [k \in 1..Cardinality(T) |-> HistoryEntry("s1", AscendingSeq(T)[k])]
    IN  {own(T) : T \in SUBSET HistoryTimes}
        \cup {Append(own(T), HistoryEntry("s2", InitNow - 1)) : T \in SUBSET HistoryTimes}

\* the signal tables empty, every handler idle, and the rest as given
InitSignalWith(skuRows, strategyRows, attachments, histories) ==
    /\ skus \in skuRows
    /\ strategies \in strategyRows
    /\ skuStrategies \in attachments
    /\ reqs = [r \in ReqIds |-> IdleReq]
    /\ signals = <<>>
    /\ priceHistory \in histories
    /\ now = InitNow
    /\ sweeps = [w \in SweepIds |-> IdleSweep]
    /\ approvedLog = <<>>
    /\ marketData = [s \in SKUIds |-> <<>>]
    /\ priceRejections = <<>>
    /\ jobs = [j \in JobIds |-> NoJob]
    /\ wb = [s \in SKUIds |-> DefaultSKU("u1").currentPrice]
    /\ users = [u \in Users |-> [wbApiKey |-> TRUE]]
    /\ engine = NoCall

NextSignalOf(sweepIds) ==
    \/ \E type \in SignalTypes : createSignal("s1", type)
    \/ \E w \in sweepIds :
          \/ processUnprocessedSignals(w)
          \/ processSignal_checkCooldown(w)
          \/ processSignal_getCooldownPeriod(w)
          \/ processSignal_findSKU(w)
          \/ processSignal_countChanges(w)
          \/ processSignal_markProcessed(w)
    \/ Tick

\* attachments of s1 alone, at most one of them active
AttachmentsOfS1 ==
    {t \in AttachmentTables : \A id \in StrategyIds : t[<<"s2", id>>] = NoRow}

SKUsActiveOrNot ==
    {[s \in SKUIds |-> [DefaultSKU("u1") EXCEPT !.active = a]] : a \in BOOLEAN}

\* Two sweeps that may overlap.  Strategy A is blind to price rises; B is as
\* created by default.
SweepStrategies ==
    {[A |-> [DefaultStrategy("u1") EXCEPT !.ignoredSignals = {"competitor_price_rise"}],
      B |-> DefaultStrategy("u1")]}

SweepHistories ==
    {<<>>, <<HistoryEntry("s1", InitNow - 361)>>, <<HistoryEntry("s1", InitNow - 1)>>}

InitSignal ==
    InitSignalWith(SKUsActiveOrNot, SweepStrategies, AttachmentsOfS1, SweepHistories)

NextSignal == NextSignalOf(SweepIds)

SpecSignal == InitSignal /\ [][NextSignal]_vars

\* One sweep, over every cooldown, daily limit and earlier history.
CooldownChoices   == {0, 120, 360}
MaxChangesChoices == {1, 3}

GateStrategies ==
    {[A |-> [DefaultStrategy("u1") EXCEPT !.cooldownMinutes = c,
                                          !.maxChangesPerDay = m,
                                          !.ignoredSignals = {"competitor_price_rise"}],
      B |-> DefaultStrategy("u1")] : c \in CooldownChoices, m \in MaxChangesChoices}

\* strategy A attached to s1 or not, active or not
AttachmentsOfA ==
    {t \in AttachmentsOfS1 : t[<<"s1", "B">>] = NoRow}

InitGates ==
    InitSignalWith(SKUsActiveOrNot, GateStrategies, AttachmentsOfA, Histories)

NextGates == NextSignalOf({"w1"})

SpecGates == InitGates /\ [][NextGates]_vars

---------------------------------------------------------------------------
(* Specification of the reprice queue: manual triggers for two SKUs *)

Constraint(type, value, enabled) ==
    [type |-> type, value |-> value, enabled |-> enabled]

Competitor(priceWithDiscount, inStock) ==
    [priceWithDiscount |-> priceWithDiscount, inStock |-> inStock]

\* the strategies s1 may run: the built-in ones with and without
\* constraints, a fixed price below the breakeven, an inactive strategy and
\* one of an unknown type
RepriceStrategies ==
    LET base == DefaultStrategy("u1")
    IN  { base,
          [base EXCEPT !.type = "price_leader",
                       !.constraints = <<Constraint("min_price", 12 * Scale, TRUE)>>],
          [base EXCEPT !.type = "margin_maximizer",
                       !.constraints = <<Constraint("min_profit", 2 * Scale, FALSE),
                                         Constraint("max_price", 1230 * Cent, TRUE)>>],
          [base EXCEPT !.actions = <<[type |-> "set_price", value |-> 10 * Scale,
                                      mode |-> "absolute"]>>,
                       !.constraints = <<Constraint("min_margin", 10, TRUE)>>],
          [base EXCEPT !.active = FALSE],
          [base EXCEPT !.type = "custom"] }

\* the snapshots of s1: a market above its price, one below its breakeven,
\* a single competitor in stock, or no snapshot at all
MarketSnapshots ==
    { <<>>,
      <<[minPrice |-> 10 * Scale, maxPrice |-> 16 * Scale, medianPrice |-> 14 * Scale,
       competitors |-> <<Competitor(10 * Scale, TRUE), Competitor(14 * Scale, TRUE),
                         Competitor(16 * Scale, TRUE), Competitor(13 * Scale, FALSE)>>]>>,
      <<[minPrice |-> 9 * Scale, maxPrice |-> 1050 * Cent, medianPrice |-> 10 * Scale,
       competitors |-> <<Competitor(9 * Scale, TRUE), Competitor(10 * Scale, TRUE),
                         Competitor(1050 * Cent, TRUE)>>]>>,
      <<[minPrice |-> 1250 * Cent, maxPrice |-> 1250 * Cent,
       medianPrice |-> 1250 * Cent,
       competitors |-> <<Competitor(1250 * Cent, TRUE)>>]>> }

\* the ranks of s1: unknown, or second
Positions == {NullPosition, 2}

InitReprice ==
    /\ \E p \in Positions, a \in BOOLEAN :
          skus = [s1 |-> [DefaultSKU("u1") EXCEPT !.position = p],
                  s2 |-> [DefaultSKU("u2") EXCEPT !.active = a]]
    /\ \E row \in RepriceStrategies :
          strategies = [A |-> row, B |-> DefaultStrategy("u2")]
    /\ skuStrategies = [k \in SKUIds \X StrategyIds |->
                           IF k \in {<<"s1", "A">>, <<"s2", "B">>} THEN Active ELSE NoRow]
    /\ reqs = [r \in ReqIds |-> IdleReq]
    /\ signals = <<>>
    /\ priceHistory = <<>>
    /\ now = InitNow
    /\ sweeps = [w \in SweepIds |-> IdleSweep]
    /\ approvedLog = <<>>
    /\ \E md \in MarketSnapshots : marketData = [s1 |-> md, s2 |-> <<>>]
    /\ priceRejections = <<>>
    /\ jobs = [j \in JobIds |-> NoJob]
    /\ wb = [s \in SKUIds |-> DefaultSKU("u1").currentPrice]
    /\ users = [u1 |-> [wbApiKey |-> TRUE], u2 |-> [wbApiKey |-> FALSE]]
    /\ engine = NoCall

NextReprice ==
    \E j \in JobIds :
        \/ \E u \in Users, s \in SKUIds : triggerReprice(j, u, s)
        \/ worker_process(j)
        \/ reprice_getSKU(j)
        \/ reprice_getActiveStrategy(j)
        \/ reprice_getMarketData(j)
        \/ reprice_logRejection(j)
        \/ reprice_update(j)
        \/ reprice_history(j)
        \/ worker_findSKU(j)
        \/ worker_setPrice(j)
        \/ worker_rollback(j)

SpecReprice == InitReprice /\ [][NextReprice]_vars

\* Calls of reprice one after the other, with any payload the queue takes and
\* with awaits that may reject: the inputs of the contract of reprice

\* the strategies of RepriceStrategies, one whose minimum margin no price
\* reaches at a variable rate of 21%, and one that stops at the price of s1
CallStrategies ==
    RepriceStrategies
        \cup {[DefaultStrategy("u1") EXCEPT
                  !.constraints = <<Constraint("min_margin", 80, TRUE)>>],
              [DefaultStrategy("u1") EXCEPT
                  !.stopConditions = <<[type  |-> "price_reached",
                                        value |-> DefaultSKU("u1").currentPrice]>>]}

\* s1 with the default economics, or with a commission that takes the
\* variable rate to 100%
CallCommissions == {DefaultSKU("u1").wbCommission, 94}

\* the signal ids a payload may carry: none, or the signal of s1
CallSignalIds == {0, 1}

\* job ids are handed out in order
IsNextJobId(j) ==
    j = "j1" \/ jobs["j1"].state # "absent"

InitRepriceCall ==
    /\ \E c \in CallCommissions :
          skus = [s1 |-> [DefaultSKU("u1") EXCEPT !.wbCommission = c],
                  s2 |-> [DefaultSKU("u2") EXCEPT !.active = FALSE]]
    /\ \E row \in CallStrategies :
          strategies = [A |-> row, B |-> DefaultStrategy("u2")]
    /\ \E a \in {Active, Inactive} :
          skuStrategies = [k \in SKUIds \X StrategyIds |->
                              IF k = <<"s1", "A">> THEN a
                              ELSE IF k = <<"s2", "B">> THEN Active ELSE NoRow]
    /\ reqs = [r \in ReqIds |-> IdleReq]
    /\ now = InitNow
    /\ signals = <<NewSignal("s1", "competitor_price_drop")>>
    /\ priceHistory = <<>>
    /\ sweeps = [w \in SweepIds |-> IdleSweep]
    /\ approvedLog = <<>>
    /\ \E md \in MarketSnapshots : marketData = [s1 |-> md, s2 |-> <<>>]
    /\ priceRejections = <<>>
    /\ jobs = [j \in JobIds |-> NoJob]
    /\ wb = [s \in SKUIds |-> DefaultSKU("u1").currentPrice]
    /\ users = [u1 |-> [wbApiKey |-> TRUE], u2 |-> [wbApiKey |-> FALSE]]
    /\ engine = NoCall

\* the worker is idle
NoOtherJobActive(j) ==
    \A k \in JobIds \ {j} : jobs[k].state # "active"

NextRepriceCall ==
    \E j \in JobIds :
        \/ \E s \in SKUIds \cup {MissingSKU}, id \in CallSignalIds :
              IsNextJobId(j) /\ addRepriceJob(j, s, id)
        \/ NoOtherJobActive(j) /\ worker_process(j)
        \/ worker_findSignal(j)
        \/ reprice_storageError(j)
        \/ reprice_getSKU(j)
        \/ reprice_getActiveStrategy(j)
        \/ reprice_getMarketData(j)
        \/ reprice_logRejection(j)
        \/ reprice_update(j)
        \/ reprice_history(j)
        \/ worker_findSKU(j)
        \/ worker_setPrice(j)
        \/ worker_rollback(j)

SpecRepriceCall == InitRepriceCall /\ [][NextRepriceCall]_vars

\* Manual triggers for s1 under a strategy that only caps the price

\* competitive_hold with a cap of 12.30, below the median of the market
\* above the price of s1, or with a cap of 16, above it
CapStrategies ==
    { [DefaultStrategy("u1") EXCEPT
          !.constraints = <<Constraint("max_price", 1230 * Cent, TRUE)>>],
      [DefaultStrategy("u1") EXCEPT
          !.constraints = <<Constraint("max_price", 16 * Scale, TRUE)>>] }

InitRepriceCap ==
    /\ skus = [s1 |-> DefaultSKU("u1"),
               s2 |-> [DefaultSKU("u2") EXCEPT !.active = FALSE]]
    /\ \E row \in CapStrategies :
          strategies = [A |-> row, B |-> DefaultStrategy("u2")]
    /\ skuStrategies = [k \in SKUIds \X StrategyIds |->
                           IF k \in {<<"s1", "A">>, <<"s2", "B">>} THEN Active ELSE NoRow]
    /\ reqs = [r \in ReqIds |-> IdleReq]
    /\ signals = <<>>
    /\ priceHistory = <<>>
    /\ now = InitNow
    /\ sweeps = [w \in SweepIds |-> IdleSweep]
    /\ approvedLog = <<>>
    /\ \E md \in MarketSnapshots : marketData = [s1 |-> md, s2 |-> <<>>]
    /\ priceRejections = <<>>
    /\ jobs = [j \in JobIds |-> NoJob]
    /\ wb = [s \in SKUIds |-> DefaultSKU("u1").currentPrice]
    /\ users = [u1 |-> [wbApiKey |-> TRUE], u2 |-> [wbApiKey |-> FALSE]]
    /\ engine = NoCall

SpecRepriceCap == InitRepriceCap /\ [][NextReprice]_vars

\* Manual triggers for SKUs without a market snapshot under competitive_hold
\* strategies that have no conditions, stop conditions or actions

\* s1 with the default costs (breakeven 11, below its price of 12), with a
\* cost price of 12 (breakeven 16), or with a commission of 94% (rate 100%)
HoldSKUs ==
    { DefaultSKU("u1"),
      [DefaultSKU("u1") EXCEPT !.costPrice = 12 * Scale],
      [DefaultSKU("u1") EXCEPT !.wbCommission = 94] }

\* without constraints, or with a minimum price above the price of s1
HoldStrategies ==
    { DefaultStrategy("u1"),
      [DefaultStrategy("u1") EXCEPT
          !.constraints = <<Constraint("min_price", 13 * Scale, TRUE)>>] }

InitRepriceHold ==
    /\ \E row \in HoldSKUs : skus = [s1 |-> row, s2 |-> DefaultSKU("u2")]
    /\ \E row \in HoldStrategies :
          strategies = [A |-> row, B |-> DefaultStrategy("u2")]
    /\ skuStrategies = [k \in SKUIds \X StrategyIds |->
                           IF k \in {<<"s1", "A">>, <<"s2", "B">>} THEN Active ELSE NoRow]
    /\ reqs = [r \in ReqIds |-> IdleReq]
    /\ signals = <<>>
    /\ priceHistory = <<>>
    /\ now = InitNow
    /\ sweeps = [w \in SweepIds |-> IdleSweep]
    /\ approvedLog = <<>>
    /\ marketData = [s \in SKUIds |-> <<>>]
    /\ priceRejections = <<>>
    /\ jobs = [j \in JobIds |-> NoJob]
    /\ wb = [s \in SKUIds |-> DefaultSKU("u1").currentPrice]
    /\ users = [u1 |-> [wbApiKey |-> TRUE], u2 |-> [wbApiKey |-> FALSE]]
    /\ engine = NoCall

SpecRepriceHold == InitRepriceHold /\ [][NextReprice]_vars

\* A strategy of s1 created with a type the schema takes, with or without
\* an algorithm for it, and without actions; s1 as in HoldSKUs
UnknownTypeStrategies ==
    {[DefaultStrategy("u1") EXCEPT !.type = t] :
        t \in {"competitive_hold", "inventory_driven", "clearance"}}

InitRepriceUnknown ==
    /\ \E row \in HoldSKUs : skus = [s1 |-> row, s2 |-> DefaultSKU("u2")]
    /\ \E row \in UnknownTypeStrategies :
          strategies = [A |-> row, B |-> DefaultStrategy("u2")]
    /\ skuStrategies = [k \in SKUIds \X StrategyIds |->
                           IF k \in {<<"s1", "A">>, <<"s2", "B">>} THEN Active ELSE NoRow]
    /\ reqs = [r \in ReqIds |-> IdleReq]
    /\ signals = <<>>
    /\ priceHistory = <<>>
    /\ now = InitNow
    /\ sweeps = [w \in SweepIds |-> IdleSweep]
    /\ approvedLog = <<>>
    /\ marketData = [s \in SKUIds |-> <<>>]
    /\ priceRejections = <<>>
    /\ jobs = [j \in JobIds |-> NoJob]
    /\ wb = [s \in SKUIds |-> DefaultSKU("u1").currentPrice]
    /\ users = [u1 |-> [wbApiKey |-> TRUE], u2 |-> [wbApiKey |-> FALSE]]
    /\ engine = NoCall

SpecRepriceUnknown == InitRepriceUnknown /\ [][NextReprice]_vars

---------------------------------------------------------------------------
(* Specification of the engine on its own: validatePrice over prices,      *)
(* economics and constraint lists                                          *)

\* prices from 0 to 15 units, around the breakevens of EngineEconomics
EnginePrices ==
    {0, 9 * Scale, 10 * Scale, 1050 * Cent, 1099 * Cent, 11 * Scale, 12 * Scale,
     1299 * Cent, 13 * Scale, 15 * Scale}

\* the default economics (rate 21%, breakeven 11), a buyer's discount of 10%
\* (rate 31%, breakeven 13), a commission of 94% (rate 100%), fixed costs of
\* 6.90 (breakeven 9, and a margin of 10% at exactly 10), and fixed costs of
\* 2 under a commission of 44% and a discount of 30% (rate 80%, breakeven 10)
EngineEconomics ==
    LET e == ExtractEconomicsFromSKU(DefaultSKU("u1"))
    IN  {e, [e EXCEPT !.spp = 10], [e EXCEPT !.wbCommission = 94],
         [e EXCEPT !.costPrice = 640 * Cent],
         [e EXCEPT !.costPrice = 150 * Cent, !.wbCommission = 44, !.spp = 30]}

\* no constraints, disabled ones, each type enabled, and mixes
EngineConstraints ==
    { <<>>,
      <<Constraint("min_profit", 2 * Scale, FALSE)>>,
      <<Constraint("min_margin", 80, FALSE), Constraint("min_price", 12 * Scale, FALSE)>>,
      <<Constraint("min_price", 12 * Scale, TRUE)>>,
      <<Constraint("min_margin", 10, TRUE)>>,
      <<Constraint("min_margin", 80, TRUE)>>,
      <<Constraint("min_price", 1250 * Cent, TRUE)>>,
      <<Constraint("min_profit", 105 * Cent, TRUE), Constraint("min_margin", 12, TRUE)>>,
      <<Constraint("min_profit", 1 * Scale, TRUE), Constraint("max_price", 1230 * Cent, TRUE)>>,
      <<Constraint("max_delta_per_step", 5, TRUE), Constraint("min_profit", 2 * Scale, TRUE),
        Constraint("min_margin", 10, FALSE)>> }

InitEngine ==
    /\ skus = [s \in SKUIds |-> DefaultSKU("u1")]
    /\ strategies = [id \in StrategyIds |-> DefaultStrategy("u1")]
    /\ skuStrategies = [k \in SKUIds \X StrategyIds |-> NoRow]
    /\ reqs = [r \in ReqIds |-> IdleReq]
    /\ signals = <<>>
    /\ priceHistory = <<>>
    /\ now = InitNow
    /\ sweeps = [w \in SweepIds |-> IdleSweep]
    /\ approvedLog = <<>>
    /\ marketData = [s \in SKUIds |-> <<>>]
    /\ priceRejections = <<>>
    /\ jobs = [j \in JobIds |-> NoJob]
    /\ wb = [s \in SKUIds |-> DefaultSKU("u1").currentPrice]
    /\ users = [u \in Users |-> [wbApiKey |-> TRUE]]
    /\ engine = NoCall

\* economicsEngine.validatePrice(proposedPrice, economics, constraints)
validatePrice(proposedPrice, economics, constraints) ==
    /\ engine' = [op            |-> "validatePrice",
                  proposedPrice |-> proposedPrice,
                  economics     |-> economics,
                  constraints   |-> constraints,
                  result        |-> ValidatePrice(proposedPrice, economics, constraints)]
    /\ UNCHANGED <<skus, strategies, skuStrategies, reqs, sigVars, priceHistory, now,
                   marketData, priceRejections, jobs, wb, users>>

\* economicsEngine.calculateBreakeven(economics)
calculateBreakeven(economics) ==
    /\ engine' = [op        |-> "calculateBreakeven",
                  economics |-> economics,
                  threw     |-> BreakevenThrows(economics),
                  result    |-> IF BreakevenThrows(economics) THEN 0
                                ELSE CalculateBreakeven(economics)]
    /\ UNCHANGED <<skus, strategies, skuStrategies, reqs, sigVars, priceHistory, now,
                   marketData, priceRejections, jobs, wb, users>>

NextEngine ==
    \/ \E p \in EnginePrices, e \in EngineEconomics, cs \in EngineConstraints :
          validatePrice(p, e, cs)
    \/ \E e \in EngineEconomics : calculateBreakeven(e)

SpecEngine == InitEngine /\ [][NextEngine]_vars

---------------------------------------------------------------------------
(* Specification of the strategy engine on its own: evaluate over          *)
(* conditions and evaluateStrategy over strategies, for the contexts of s1 *)

\* a condition without members
Condition(metric, operator, value) ==
    [metric |-> metric, operator |-> operator, value |-> value, isArray |-> FALSE,
     and |-> <<>>, or |-> <<>>]

\* the contexts of s1: its rank unknown or second, without a snapshot or
\* with the market above its price
EngineContexts ==
    { Context([DefaultSKU("u1") EXCEPT !.position = p], md) :
          p \in Positions,
          md \in {DefaultMarketData,
                  [minPrice |-> 10 * Scale, maxPrice |-> 16 * Scale,
                   medianPrice |-> 14 * Scale,
                   competitors |-> <<Competitor(10 * Scale, TRUE),
                                     Competitor(14 * Scale, TRUE),
                                     Competitor(16 * Scale, TRUE)>>]} }

\* comparisons that hold and fail at the price 12 of s1, one on the rank,
\* one on the market, and one on a metric the evaluator does not know
PriceAtLeast10 == Condition("current_price", "gte", 10 * Scale)
PriceBelow10   == Condition("my_price", "lt", 10 * Scale)
RankInTop5     == Condition("position", "lte", 5)
MarketKnown    == Condition("competitor_min_price", "gt", 0)
UnknownMetric  == Condition("sales", "gte", 0)

\* the conditions: each comparison as the base, with each list of and
\* members and each list of or members, one of them nested
EngineConditions ==
    { [base EXCEPT !.and = a, !.or = o] :
          base \in {PriceAtLeast10, PriceBelow10, RankInTop5, UnknownMetric},
          a \in { <<>>, <<PriceAtLeast10>>, <<PriceAtLeast10, PriceBelow10>>,
                  <<[PriceAtLeast10 EXCEPT !.or = <<PriceBelow10, MarketKnown>>]>> },
          o \in { <<>>, <<PriceBelow10>>, <<PriceBelow10, PriceAtLeast10>>,
                  <<[MarketKnown EXCEPT !.and = <<RankInTop5>>]>> } }

\* conditionEvaluator.evaluate(condition, context)
evaluate(condition, context) ==
    /\ engine' = [op        |-> "evaluate",
                  condition |-> condition,
                  context   |-> context,
                  result    |-> EvaluateCondition(condition, context)]
    /\ UNCHANGED <<skus, strategies, skuStrategies, reqs, sigVars, priceHistory, now,
                   marketData, priceRejections, jobs, wb, users>>

\* a stop condition, and an action of the ActionExecutor
StopCondition(type, value) == [type |-> type, value |-> value]
Action(type, value, mode) == [type |-> type, value |-> value, mode |-> mode]

StopConditionLists ==
    { <<>>,
      <<StopCondition("price_reached", 10 * Scale)>>,
      <<StopCondition("price_reached", 12 * Scale)>>,
      <<StopCondition("time_elapsed", 1), StopCondition("position_reached", 3)>> }

ConditionLists ==
    { <<>>, <<PriceAtLeast10, RankInTop5>>, <<PriceBelow10>> }

\* no action, one, and lists whose later actions differ from the first
ActionLists ==
    { <<>>,
      <<Action("set_price", 13 * Scale, "absolute")>>,
      <<Action("set_price", 13 * Scale, "absolute"), Action("set_to_median", 0, "absolute")>>,
      <<Action("increase_price", 5, "percentage"),
        Action("set_price", 13 * Scale, "absolute"),
        Action("decrease_price", 0, "absolute")>> }

StrategyTypes == {"competitive_hold", "price_leader", "custom"}

\* the active strategies of every type with every list, and the inactive
\* ones that would otherwise propose
EngineStrategies ==
    { [DefaultStrategy("u1") EXCEPT !.type = t, !.stopConditions = sc,
                                    !.conditions = cs, !.actions = as] :
          t \in StrategyTypes, sc \in StopConditionLists, cs \in ConditionLists,
          as \in ActionLists }
    \cup { [DefaultStrategy("u1") EXCEPT !.active = FALSE, !.type = t, !.actions = as] :
              t \in StrategyTypes, as \in ActionLists }

\* strategyEngine.evaluateStrategy(context, strategy)
evaluateStrategy(context, strategy) ==
    /\ engine' = [op       |-> "evaluateStrategy",
                  context  |-> context,
                  strategy |-> strategy,
                  result   |-> EvaluateStrategy(context, strategy)]
    /\ UNCHANGED <<skus, strategies, skuStrategies, reqs, sigVars, priceHistory, now,
                   marketData, priceRejections, jobs, wb, users>>

NextStrategyEngine ==
    \/ \E c \in EngineConditions, ctx \in EngineContexts : evaluate(c, ctx)
    \/ \E s \in EngineStrategies, ctx \in EngineContexts : evaluateStrategy(ctx, s)

SpecStrategyEngine == InitEngine /\ [][NextStrategyEngine]_vars

---------------------------------------------------------------------------
(* Specification of the query for the unprocessed signals: the signal      *)
(* table holds up to MaxRows rows, and the query is made with each limit   *)

MaxRows == 3

\* a row as createSignal left it, at time t, processed since or not
SignalRow(type, t, processed) ==
    [ skuId     |-> "s1",
      type      |-> type,
      priority  |-> SignalPriority(type),
      processed |-> processed,
      createdAt |-> t ]

SignalRows ==
    { SignalRow(type, t, p) :
          type \in {"competitor_price_drop", "competitor_price_rise", "competitor_oos"},
          t \in {InitNow - 1, InitNow},
          p \in BOOLEAN }

\* the rows are appended as the clock runs: creation times never decrease
SignalTables ==
    { t \in UNION {[1..n -> SignalRows] : n \in 0..MaxRows} :
          \A i, j \in DOMAIN t : i < j => t[i].createdAt <= t[j].createdAt }

InitQuery ==
    /\ skus = [s \in SKUIds |-> DefaultSKU("u1")]
    /\ strategies = [id \in StrategyIds |-> DefaultStrategy("u1")]
    /\ skuStrategies = [p \in SKUIds \X StrategyIds |-> NoRow]
    /\ reqs = [r \in ReqIds |-> IdleReq]
    /\ signals \in SignalTables
    /\ priceHistory = <<>>
    /\ now = InitNow
    /\ sweeps = [w \in SweepIds |-> IdleSweep]
    /\ approvedLog = <<>>
    /\ marketData = [s \in SKUIds |-> <<>>]
    /\ priceRejections = <<>>
    /\ jobs = [j \in JobIds |-> NoJob]
    /\ wb = [s \in SKUIds |-> DefaultSKU("u1").currentPrice]
    /\ users = [u \in Users |-> [wbApiKey |-> TRUE]]
    /\ engine = NoCall

\* SignalProcessor.getUnprocessedSignals(limit)
getUnprocessedSignals(limit) ==
    /\ engine' = [op     |-> "getUnprocessedSignals",
                  limit  |-> limit,
                  result |-> GetUnprocessedSignals(limit)]
    /\ UNCHANGED <<skus, strategies, skuStrategies, reqs, sigVars, priceHistory, now,
                   marketData, priceRejections, jobs, wb, users>>

NextQuery == \E limit \in 1..MaxRows : getUnprocessedSignals(limit)

SpecQuery == InitQuery /\ [][NextQuery]_vars

---------------------------------------------------------------------------
(* Specification of the built-in strategies on their own:                  *)
(* executeStrategyByType over types, prices, ranks and snapshots           *)

\* the types with an algorithm, and the two the creation schema accepts
\* without one
BuiltInTypes == {"competitive_hold", "price_leader", "margin_maximizer"}
SchemaTypes  == BuiltInTypes \cup {"inventory_driven", "clearance"}

\* s1 at a price of 10, 12 or 15, its rank unknown, 2, 4 or 7, without a
\* snapshot or with one of MarketSnapshots
StrategyContexts ==
    { Context([DefaultSKU("u1") EXCEPT !.currentPrice = price, !.position = p],
              IF md = <<>> THEN DefaultMarketData ELSE md[1]) :
          price \in {10 * Scale, 12 * Scale, 15 * Scale},
          p \in {NullPosition, 2, 4, 7},
          md \in MarketSnapshots }

\* strategyEngine.executeStrategyByType(strategy, context)
executeStrategyByType(strategy, context) ==
    /\ engine' = [op       |-> "executeStrategyByType",
                  strategy |-> strategy,
                  context  |-> context,
                  result   |-> ExecuteStrategyByType(strategy, context)]
    /\ UNCHANGED <<skus, strategies, skuStrategies, reqs, sigVars, priceHistory, now,
                   marketData, priceRejections, jobs, wb, users>>

NextStrategies ==
    \E t \in SchemaTypes, ctx \in StrategyContexts :
        executeStrategyByType([DefaultStrategy("u1") EXCEPT !.type = t], ctx)

SpecStrategies == InitEngine /\ [][NextStrategies]_vars


\* The sweep under the schedule the code gives it: the cron task keeps
\* firing and every database call of a run returns.  No commit is younger
\* than the cooldown, so the cooldown gate lets every signal through.
SweepStep(w) ==
    \/ processUnprocessedSignals(w)
    \/ processSignal_checkCooldown(w)
    \/ processSignal_getCooldownPeriod(w)
    \/ processSignal_findSKU(w)
    \/ processSignal_countChanges(w)
    \/ processSignal_markProcessed(w)

InitSweepFair ==
    InitSignalWith(SKUsActiveOrNot, SweepStrategies, AttachmentsOfS1,
                   {<<>>, <<HistoryEntry("s1", InitNow - 361)>>})

SpecSweepFair ==
    InitSweepFair /\ [][NextGates]_vars /\ WF_vars(SweepStep("w1"))

\* The sweep with a full batch ahead of a signal: s2 is inactive and has
\* SweepLimit - 1 or SweepLimit unprocessed price drops (priority 8); s1 is
\* active, its strategy reacts to every type, its last change, if any, is
\* older than the cooldown, and it has one later price rise (priority 5)
StarveTables ==
    { [i \in 1..(n + 1) |->
          IF i <= n
          THEN [SignalRow("competitor_price_drop", InitNow - 1, FALSE)
                   EXCEPT !.skuId = "s2"]
          ELSE SignalRow("competitor_price_rise", InitNow, FALSE)] :
        n \in {SweepLimit - 1, SweepLimit} }

InitStarve ==
    /\ skus = [s1 |-> DefaultSKU("u1"),
               s2 |-> [DefaultSKU("u1") EXCEPT !.active = FALSE]]
    /\ strategies = [id \in StrategyIds |-> DefaultStrategy("u1")]
    /\ skuStrategies = [k \in SKUIds \X StrategyIds |->
                           IF k[2] = "A" THEN Active ELSE NoRow]
    /\ reqs = [r \in ReqIds |-> IdleReq]
    /\ signals \in StarveTables
    /\ priceHistory \in {<<>>, <<HistoryEntry("s1", InitNow - 361)>>}
    /\ now = InitNow
    /\ sweeps = [w \in SweepIds |-> IdleSweep]
    /\ approvedLog = <<>>
    /\ marketData = [s \in SKUIds |-> <<>>]
    /\ priceRejections = <<>>
    /\ jobs = [j \in JobIds |-> NoJob]
    /\ wb = [s \in SKUIds |-> DefaultSKU("u1").currentPrice]
    /\ users = [u \in Users |-> [wbApiKey |-> TRUE]]
    /\ engine = NoCall

NextStarve == SweepStep("w1")

SpecStarve == InitStarve /\ [][NextStarve]_vars /\ WF_vars(SweepStep("w1"))

\* One sweep, over every pair of an allow-list and an ignore-list
InterestStrategies ==
    {[A |-> [DefaultStrategy("u1") EXCEPT !.allowedSignals = allowed,
                                          !.ignoredSignals = ignored],
      B |-> DefaultStrategy("u1")] :
        allowed \in SUBSET SignalTypes, ignored \in SUBSET SignalTypes}

InitInterest ==
    InitSignalWith(SKUsActiveOrNot, InterestStrategies, AttachmentsOfS1, SweepHistories)

NextInterest == NextSignalOf({"w1"})

SpecInterest == InitInterest /\ [][NextInterest]_vars

---------------------------------------------------------------------------
(* C1: for every SKU at most one reprice is in flight between the loading  *)
(* of the SKU and the end of its commit, so that two overlapping reprice   *)
(* executions for one SKU never both commit.                               *)
AtMostOneRepriceInFlightPerSKU ==
    \A s \in SKUIds :
        Cardinality({j \in JobIds : InFlight(jobs[j]) /\ jobs[j].skuId = s}) <= 1

---------------------------------------------------------------------------
(* C2: in every reachable state each SKU has at most one attachment with   *)
(* active = true, whatever the interleaving of activateForSKU requests.    *)
AtMostOneActiveAttachment ==
    \A s \in SKUIds : Cardinality(ActiveStrategies(skuStrategies, s)) <= 1

(* C3: an activateForSKU(B, s) that does not overlap another activation    *)
(* leaves s with exactly one active attachment, the one for B, created if  *)
(* it did not exist; whatever was active before (strategy A) is no longer. *)
ActivationLeavesOnlyChosenActive ==
    [][\A r \in ReqIds :
          (activateForSKU_upsert(r) /\ reqs'[r].status = 200) =>
              /\ ActiveStrategies(skuStrategies', reqs[r].skuId) = {reqs[r].id}
              /\ skuStrategies'[<<reqs[r].skuId, reqs[r].id>>] = Active]_vars

\* B has just been activated for s1, where A is attached and no longer active
ActivatedBOverA ==
    \E r \in ReqIds :
        /\ reqs[r].pc = "done" /\ reqs[r].op = "activate" /\ reqs[r].status = 200
        /\ reqs[r].id = "B" /\ reqs[r].skuId = "s1"
        /\ skuStrategies[<<"s1", "B">>] = Active
        /\ skuStrategies[<<"s1", "A">>] = Inactive

(* C4: whenever reprice returns success: true, the price it wrote to the   *)
(* SKU and appended to the history is not below the breakeven of the SKU's *)
(* economics and violates no enabled min_profit, min_margin, min_price or  *)
(* max_price constraint of the active strategy.                            *)
CommittedPriceIsValid ==
    [][\A j \in JobIds :
          LET job == jobs[j]
              p   == job.proposal.price
              e   == ExtractEconomicsFromSKU(job.sku)
              cs  == strategies[job.strategyId].constraints
          IN  /\ (reprice_update(j) /\ job.proposal.kind = "price") =>
                    skus'[job.skuId].currentPrice = p
              /\ (reprice_history(j) /\ jobs'[j].result = "success") =>
                    /\ priceHistory'[Len(priceHistory')].price = p
                    /\ p >= CalculateBreakeven(e)
                    /\ \A k \in DOMAIN cs :
                          cs[k].enabled =>
                             /\ cs[k].type = "min_profit" =>
                                   CalculateProfit(p, e) * Cent >= cs[k].value
                             /\ cs[k].type = "min_margin" =>
                                   /\ p # 0
                                   /\ CalculateMargin(p, e) >= cs[k].value * 100
                             /\ cs[k].type = "min_price" => p >= cs[k].value
                             /\ cs[k].type = "max_price" => p <= cs[k].value]_vars

\* a job has committed a new price for s1 under a strategy with an enabled
\* constraint, and the worker is done with it
RepriceSucceededUnderConstraints ==
    \E j \in JobIds :
        /\ jobs[j].state = "completed" /\ jobs[j].result = "success"
        /\ jobs[j].skuId = "s1"
        /\ jobs[j].proposal.price # DefaultSKU("u1").currentPrice
        /\ skus["s1"].currentPrice = jobs[j].proposal.price
        /\ \E k \in DOMAIN priceHistory :
              priceHistory[k].price = jobs[j].proposal.price
        /\ \E k \in DOMAIN strategies[jobs[j].strategyId].constraints :
              strategies[jobs[j].strategyId].constraints[k].enabled

(* C5: every signal that passes the four gates of processSignal results in *)
(* a reprice request for its SKU handed to the orchestrator, and is marked *)
(* processed: a processed signal has a job of the reprice queue.           *)
ProcessedSignalsAreQueued ==
    \A i \in DOMAIN signals :
        signals[i].processed =>
            \E j \in JobIds : jobs[j].state # "absent" /\ jobs[j].signalId = i

(* C6: no signal is accepted more than once, even when two sweeps over the *)
(* unprocessed signals overlap: the approvals name each signal once.       *)
NoSignalApprovedTwice ==
    \A m, n \in DOMAIN approvedLog :
        m # n => approvedLog[m] # approvedLog[n]

(* C7: under fair scheduling of the sweep every created signal, a rejected *)
(* one included, eventually stops being returned by getUnprocessedSignals, *)
(* that is, it is processed from some point on.                            *)
SignalsStopBeingDelivered ==
    \A i \in 1..MaxSignals :
        <>[](i \in DOMAIN signals => signals[i].processed)

(* C8: the cooldown gate rejects a signal when the last price_history      *)
(* entry of its SKU is younger than the active strategy's cooldownMinutes  *)
(* (360 when there is none), and passes when the elapsed time is at least  *)
(* that cooldown.                                                          *)
CooldownGateFollowsCooldownMinutes ==
    [][\A w \in SweepIds :
          processSignal_getCooldownPeriod(w) =>
              LET skuId    == signals[CurrentSignal(w)].skuId
                  elapsed  == now - sweeps[w].lastChange
                  cooldown == IF ActiveStrategies(skuStrategies, skuId) = {}
                              THEN DEFAULT_COOLDOWN_MINUTES
                              ELSE strategies[CHOOSE a \in ActiveStrategies(skuStrategies, skuId) : TRUE].cooldownMinutes
              IN  /\ elapsed >= cooldown => sweeps'[w].pc = "findSKU"
                  /\ elapsed < cooldown => sweeps'[w].logged = "in cooldown"]_vars

(* C9: a signal for a SKU whose price_history entries since local midnight *)
(* number at least the active strategy's maxChangesPerDay is rejected,     *)
(* whatever the other gates say: no step of processSignal approves it or   *)
(* takes it to the update that marks it processed.                         *)
RateGateRejectsAtLimit ==
    [][\A w \in SweepIds :
          (sweeps[w].pc \notin {"idle", "markProcessed"} /\ sweeps'[w] # sweeps[w]) =>
              LET skuId == signals[CurrentSignal(w)].skuId
                  count == Cardinality({k \in DOMAIN priceHistory :
                              /\ priceHistory[k].skuId = skuId
                              /\ priceHistory[k].time >=
                                    (now \div MinutesPerDay) * MinutesPerDay})
              IN  (\E a \in ActiveStrategies(skuStrategies, skuId) :
                       count >= strategies[a].maxChangesPerDay)
                  => /\ approvedLog' = approvedLog
                     /\ sweeps'[w].pc # "markProcessed"
                     /\ (sweeps[w].pc = "countChanges" =>
                            sweeps'[w].logged = "reached max changes per day")]_vars

\* the rate gate has just turned a signal away
RateGateRejected ==
    \E w \in SweepIds : sweeps[w].logged = "reached max changes per day"

(* C10: the interest gate passes a signal iff its type is not in the       *)
(* strategy's ignoredSignals and allowedSignals is empty or contains it;   *)
(* a type in both lists is rejected.                                       *)
InterestGateFollowsLists ==
    [][\A w \in SweepIds :
          processSignal_findSKU(w) =>
              LET sig == signals[CurrentSignal(w)]
              IN  \A a \in ActiveStrategies(skuStrategies, sig.skuId) :
                      skus[sig.skuId].active =>
                          /\ (sweeps'[w].pc = "countChanges") <=>
                                /\ sig.type \notin strategies[a].ignoredSignals
                                /\ \/ strategies[a].allowedSignals = {}
                                   \/ sig.type \in strategies[a].allowedSignals
                          /\ (sweeps'[w].pc # "countChanges") =>
                                sweeps'[w].logged = "ignores signal"]_vars

\* a signal whose type is in both lists of the active strategy has just been
\* turned away by the interest gate
TypeInBothListsRejected ==
    /\ skuStrategies[<<"s1", "A">>] = Active
    /\ signals # <<>>
    /\ \A i \in DOMAIN signals :
          signals[i].type \in strategies["A"].allowedSignals
                                  \cap strategies["A"].ignoredSignals
    /\ \E w \in SweepIds : sweeps[w].logged = "ignores signal"

(* C11: for every SKU any two consecutive price_history entries are at     *)
(* least the cooldown of the strategy that committed the later one apart,  *)
(* whatever triggers (here: manual ones) produced them.                    *)
CommitsAreACooldownApart ==
    \A s \in SKUIds :
        \A k, l \in HistoryOf(s) :
            k < l => priceHistory[l].time - priceHistory[k].time
                        >= strategies[priceHistory[l].strategyId].cooldownMinutes

FailedValidationIsRecorded ==
    [][\A j \in JobIds :
          LET job      == jobs[j]
              res      == jobs'[j].outcome
              strategy == strategies[job.strategyId]
              ctx      == Context(job.sku, GetMarketData(job.skuId))
              proposal == EvaluateStrategy(ctx, strategy)
              last     == priceRejections'[Len(priceRejections')]
          IN  /\ (reprice_getMarketData(j)
                     /\ ~BreakevenThrows(ctx.economics)
                     /\ proposal.kind = "price"
                     /\ \/ proposal.price < CalculateBreakeven(ctx.economics)
                        \/ ConstraintErrors(strategy.constraints, proposal.price,
                                            ctx.economics) # <<>>) =>
                    jobs'[j].pc = "logRejection"
              /\ reprice_logRejection(j) =>
                    /\ Len(priceRejections') = job.before.rejections + 1
                    /\ last.skuId = job.skuId
                    /\ last.proposedPrice = job.proposal.price
                    /\ last.validationErrors = job.errors
                    /\ skus'[job.skuId].currentPrice = job.before.price
                    /\ Len(priceHistory') = job.before.history
                    /\ res.kind = "returned" /\ ~res.success
                    /\ res.hasValidationErrors
                    /\ res.validationErrors = job.errors
                    /\ job.errors # <<>>]_vars

(* C14: whenever a call of reprice that no other call overlaps returns     *)
(* success: false, by whatever exit, a storage failure between the update  *)
(* of the price and the insert into price_history included, the SKU's      *)
(* current price is what it was when the call began.                       *)
FailedRepriceLeavesPrice ==
    [][\A j \in JobIds :
          LET job == jobs[j]
              res == jobs'[j].outcome
          IN  (job.state = "active" /\ job.pc \in RepriceSteps
                  /\ res.kind = "returned" /\ ~res.success
                  /\ job.skuId \in DOMAIN skus) =>
                 skus'[job.skuId].currentPrice = job.before.price]_vars

(* C15: no exception leaves reprice: whatever the input and whichever      *)
(* collaborator or engine fails (a missing row, an error of the strategy   *)
(* or its action, an error of the cost model, a rejected storage call),    *)
(* the call ends by returning a RepriceResult, which on failure has        *)
(* success: false and an error or a reason.                                *)
RepriceAlwaysReturnsAResult ==
    [][\A j \in JobIds :
          LET job == jobs[j]
              res == jobs'[j].outcome
          IN  (job.state = "active" /\ job.pc \in RepriceSteps
                  /\ ~(jobs'[j].state = "active" /\ jobs'[j].pc \in RepriceSteps)) =>
                 /\ res.kind = "returned"
                 /\ ~res.success => (res.error # NoRow \/ res.reason # NoRow)]_vars

\* one call has ended on a rejected storage call and another on the error of
\* the cost model, and both came back as results
StorageAndCostModelErrorsReturned ==
    \E j, k \in JobIds :
        /\ jobs[j].outcome.kind = "returned" /\ jobs[j].outcome.error = StorageError
        /\ jobs[k].outcome.kind = "returned"
        /\ jobs[k].outcome.error = BreakevenImpossible

(* C16: when a call of reprice that no other call overlaps finds the SKU   *)
(* missing or inactive, finds no active attachment, or gets no proposal    *)
(* from the strategy (it is inactive, a stop condition fires, or a         *)
(* condition fails), it returns success: false at that step and has        *)
(* written nothing: the SKU's price, price_history and price_rejections    *)
(* are what they were when the call began.                                 *)
EarlyExitsWriteNothing ==
    [][\A j \in JobIds :
          LET job      == jobs[j]
              res      == jobs'[j].outcome
              strategy == strategies[job.strategyId]
              ctx      == Context(job.sku, GetMarketData(job.skuId))
              Exit     ==
                  /\ res.kind = "returned" /\ ~res.success
                  /\ ~(jobs'[j].state = "active" /\ jobs'[j].pc \in RepriceSteps)
                  /\ skus' = skus
                  /\ job.skuId \in DOMAIN skus =>
                        skus'[job.skuId].currentPrice = job.before.price
                  /\ priceHistory' = priceHistory
                  /\ Len(priceHistory') = job.before.history
                  /\ priceRejections' = priceRejections
                  /\ Len(priceRejections') = job.before.rejections
          IN  /\ (reprice_getSKU(j) /\ job.skuId \notin DOMAIN skus) => Exit
              /\ (reprice_getSKU(j) /\ job.skuId \in DOMAIN skus
                     /\ ~skus[job.skuId].active) => Exit
              /\ (reprice_getActiveStrategy(j)
                     /\ ActiveStrategies(skuStrategies, job.skuId) = {}) => Exit
              /\ (reprice_getMarketData(j)
                     /\ \/ ~strategy.active
                        \/ CheckStopConditions(strategy, ctx)
                        \/ ~EvaluateConditions(strategy.conditions, ctx)) =>
                    Exit]_vars

\* one call has ended on a missing SKU and another without a proposal
MissingSKUAndNoProposalReturned ==
    \E j, k \in JobIds :
        /\ jobs[j].skuId = MissingSKU /\ jobs[j].outcome.error = "SKU not found"
        /\ jobs[k].skuId = "s1"
        /\ jobs[k].outcome.reason = "Strategy did not produce a price proposal"

TerminalOutcomesAreNotRetried ==
    [][\A j \in JobIds :
          worker_process(j) =>
              jobs[j].outcome.error \notin {"SKU not found", "SKU is not active",
                                            "No active strategy found"}]_vars

(* C19: for a SKU whose variable cost rate (commission + spp + tax) is     *)
(* 100% or more, calculateBreakeven and validatePrice throw instead of     *)
(* returning a value, and a call of reprice that reaches the validation    *)
(* for it returns success: false with that error and has committed         *)
(* nothing: the price and price_history are what they were.                *)
CostModelErrorIsSurfaced ==
    [][\A j \in JobIds :
          LET job      == jobs[j]
              res      == jobs'[j].outcome
              strategy == strategies[job.strategyId]
              ctx      == Context(job.sku, GetMarketData(job.skuId))
              e        == ctx.economics
              proposal == EvaluateStrategy(ctx, strategy)
          IN  (reprice_getMarketData(j)
                  /\ e.wbCommission + e.spp + e.tax >= 100
                  /\ proposal.kind \in {"price", "nan"}) =>
                 /\ BreakevenThrows(e)
                 /\ ValidatePrice(proposal.price, e, strategy.constraints).threw
                 /\ res.kind = "returned" /\ ~res.success
                 /\ res.error = BreakevenImpossible
                 /\ jobs'[j].state # "active"
                 /\ skus' = skus
                 /\ skus'[job.skuId].currentPrice = job.before.price
                 /\ priceHistory' = priceHistory
                 /\ Len(priceHistory') = job.before.history]_vars

\* a call for s1, whose variable rate is 100%, has ended on the error of the
\* cost model, with the price of s1 and price_history untouched
CostModelErrorReturned ==
    \E j \in JobIds :
        /\ jobs[j].skuId = "s1"
        /\ VariableCostRate(ExtractEconomicsFromSKU(skus["s1"])) >= 100
        /\ jobs[j].outcome.kind = "returned" /\ ~jobs[j].outcome.success
        /\ jobs[j].outcome.error = BreakevenImpossible
        /\ skus["s1"].currentPrice = DefaultSKU("u1").currentPrice
        /\ priceHistory = <<>>

(* C20: for economics with a variable rate below 100% and any constraint   *)
(* list (empty, all disabled, or any mix), validatePrice of a price below  *)
(* the breakeven returns valid = false with exactly one error of type      *)
(* below_breakeven.                                                        *)
BelowBreakevenIsRejectedOnce ==
    (/\ engine.op = "validatePrice"
     /\ VariableCostRate(engine.economics) < 100
     /\ engine.proposedPrice < CalculateBreakeven(engine.economics)) =>
        /\ ~engine.result.threw
        /\ ~engine.result.valid
        /\ Cardinality({k \in DOMAIN engine.result.errors :
                           engine.result.errors[k] = "below_breakeven"}) = 1

(* C21: for economics with a variable rate below 100%, validatePrice       *)
(* returns valid = true with no errors exactly when the price is at or     *)
(* above the breakeven and every enabled constraint holds (min_profit:     *)
(* profit >= value, min_margin: margin >= value, min_price: price >=       *)
(* value, max_price: price <= value); otherwise it returns valid = false   *)
(* with one error per violated enabled constraint, and below_breakeven     *)
(* when the price is below the breakeven.                                  *)
ValidationFollowsConstraints ==
    LET p  == engine.proposedPrice
        e  == engine.economics
        cs == engine.constraints
        r  == engine.result
        Violated(c) ==
            /\ c.enabled
            /\ \/ c.type = "min_profit" /\ CalculateProfit(p, e) * Cent < c.value
               \/ c.type = "min_margin" /\ p > 0 /\ CalculateMargin(p, e) < c.value * 100
               \/ c.type = "min_margin" /\ p = 0 /\ CalculateProfit(p, e) < 0
               \/ c.type = "min_price" /\ p < c.value
               \/ c.type = "max_price" /\ p > c.value
        violated == {k \in DOMAIN cs : Violated(cs[k])}
        below    == p < CalculateBreakeven(e)
        OfType(t) == Cardinality({k \in DOMAIN r.errors : r.errors[k] = t})
        ErrorOf(t) == CASE t = "min_profit" -> "min_profit_violated"
                        [] t = "min_margin" -> "min_margin_violated"
                        [] t = "min_price"  -> "min_price_violated"
                        [] t = "max_price"  -> "max_price_exceeded"
    IN  (engine.op = "validatePrice" /\ VariableCostRate(e) < 100) =>
            /\ ~r.threw
            /\ r.valid = (~below /\ violated = {})
            /\ r.valid = (r.errors = <<>>)
            /\ Len(r.errors) = Cardinality(violated) + (IF below THEN 1 ELSE 0)
            /\ OfType("below_breakeven") = (IF below THEN 1 ELSE 0)
            /\ \A t \in {"min_profit", "min_margin", "min_price", "max_price"} :
                  OfType(ErrorOf(t)) = Cardinality({k \in violated : cs[k].type = t})

(* C22: disabled constraints are never evaluated: validatePrice gives the  *)
(* same outcome (valid, errors, suggestedPrice, minAllowedPrice, or the    *)
(* same failure) as on the list from which every constraint with           *)
(* enabled = false is removed.                                             *)
DisabledConstraintsAreIgnored ==
    engine.op = "validatePrice" =>
        LET r         == engine.result
            IsEnabled(c) == c.enabled
            onEnabled == ValidatePrice(engine.proposedPrice, engine.economics,
                                       SelectSeq(engine.constraints, IsEnabled))
        IN  /\ r.threw = onEnabled.threw
            /\ r.valid = onEnabled.valid
            /\ r.errors = onEnabled.errors
            /\ r.suggestedPrice = onEnabled.suggestedPrice
            /\ r.minAllowedPrice = onEnabled.minAllowedPrice

\* a price passed, or failed for another reason, under a disabled constraint
\* that it violates, alone or next to enabled ones
DisabledViolatedConstraintPassed ==
    /\ engine.op = "validatePrice"
    /\ ~engine.result.threw
    /\ engine.proposedPrice > 0
    /\ \E k \in DOMAIN engine.constraints :
          /\ ~engine.constraints[k].enabled
          /\ engine.constraints[k].type = "min_margin"
          /\ CalculateMargin(engine.proposedPrice, engine.economics)
                < engine.constraints[k].value * 100
    /\ \E k \in DOMAIN engine.constraints : engine.constraints[k].enabled
    /\ engine.result.errors = <<"min_profit_violated">>
    /\ engine.result.minAllowedPrice = 14 * Scale

(* C23: a violation of max_price is not critical and does not reject the  *)
(* price outright: where max_price_exceeded is the only error of a         *)
(* proposal, the error has critical = false and the cap as suggestedPrice, *)
(* reprice does not reject the proposal, and every other kind of error is  *)
(* critical.                                                               *)
MaxPriceAloneDoesNotReject ==
    \A j \in JobIds :
        LET job == jobs[j]
            cs  == strategies["A"].constraints
        IN  (job.state = "active" /\ job.errors = <<"max_price_exceeded">>) =>
                /\ \A k \in DOMAIN cs :
                      LET err == CheckConstraintError(cs[k], job.proposal.price,
                                     ExtractEconomicsFromSKU(job.sku))
                      IN  err.type = "max_price_exceeded" =>
                              ~err.critical /\ err.suggestedPrice = cs[k].value
                /\ \A t \in {"below_breakeven", "min_profit_violated",
                             "min_margin_violated", "min_price_violated"} : IsCritical(t)
                /\ job.pc # "logRejection"
                /\ ~(job.outcome.kind = "returned" /\ job.outcome.hasValidationErrors)

(* C24: whenever a price fails validatePrice with a violation of           *)
(* min_profit, min_margin, min_price or the breakeven, validatePrice       *)
(* returns, and does not throw, a result in which suggestedPrice and       *)
(* minAllowedPrice are defined, equal and strictly greater than the        *)
(* proposed price; when the validation succeeds both are undefined.        *)
FailureCarriesMinAllowedPrice ==
    LET p  == engine.proposedPrice
        e  == engine.economics
        cs == engine.constraints
        r  == engine.result
        FailsOnMinimumSide ==
            \/ p < CalculateBreakeven(e)
            \/ \E k \in DOMAIN cs :
                  /\ cs[k].enabled
                  /\ \/ cs[k].type = "min_profit" /\ CalculateProfit(p, e) * Cent < cs[k].value
                     \/ cs[k].type = "min_margin" /\ MarginIsBelow(p, e, cs[k].value)
                     \/ cs[k].type = "min_price" /\ p < cs[k].value
    IN  (engine.op = "validatePrice" /\ VariableCostRate(e) < 100) =>
            /\ FailsOnMinimumSide =>
                  /\ ~r.threw
                  /\ ~r.valid
                  /\ r.minAllowedPrice > 0
                  /\ r.suggestedPrice = r.minAllowedPrice
                  /\ r.minAllowedPrice > p
            /\ (~r.threw /\ r.valid) => r.suggestedPrice = 0 /\ r.minAllowedPrice = 0

(* C25: the minAllowedPrice returned on a failure is allowed on the        *)
(* minimum side: validating it under the same economics and constraints    *)
(* gives no below_breakeven, min_profit_violated, min_margin_violated or   *)
(* min_price_violated error.                                               *)
MinAllowedPriceIsAllowed ==
    (engine.op = "validatePrice" /\ ~engine.result.threw /\ ~engine.result.valid) =>
        LET m  == engine.result.minAllowedPrice
            e  == engine.economics
            cs == engine.constraints
        IN  /\ m >= CalculateBreakeven(e)
            /\ \A k \in DOMAIN cs :
                  cs[k].enabled =>
                      /\ cs[k].type = "min_profit" => CalculateProfit(m, e) * Cent >= cs[k].value
                      /\ cs[k].type = "min_margin" => CalculateMargin(m, e) >= cs[k].value * 100
                      /\ cs[k].type = "min_price" => m >= cs[k].value

\* a failure whose minAllowedPrice comes from a minimum margin, a minimum
\* profit or a minimum price above the breakeven
MinAllowedPriceAboveBreakevenReturned ==
    /\ engine.op = "validatePrice"
    /\ ~engine.result.threw /\ ~engine.result.valid
    /\ engine.result.minAllowedPrice > engine.result.breakeven
    /\ engine.result.minAllowedPrice > engine.proposedPrice
    /\ \E k \in DOMAIN engine.result.errors :
          engine.result.errors[k] = "min_margin_violated"

(* C26: for every economics with a variable rate below 100%, a buyer's     *)
(* discount included, the profit at the breakeven is zero within rounding: *)
(* it is not negative and it is less than one currency unit.               *)
ProfitAtBreakevenIsAboutZero ==
    (engine.op = "calculateBreakeven" /\ VariableCostRate(engine.economics) < 100) =>
        /\ ~engine.threw
        /\ CalculateProfit(engine.result, engine.economics) >= 0
        /\ CalculateProfit(engine.result, engine.economics) < Cent

(* C27: ConditionEvaluator.evaluate returns true if and only if the        *)
(* metric resolves to a defined, non-null value, the base comparison       *)
(* holds, every condition in and evaluates true and, when or is not        *)
(* empty, at least one condition in or evaluates true: a false member of   *)
(* and forces false, and a true member of or does not force true.          *)
ConditionHoldsIffAllPartsHold ==
    engine.op = "evaluate" =>
        LET c   == engine.condition
            ctx == engine.context
            defined ==
                /\ c.metric \in {"position", "my_price", "current_price",
                                 "competitor_min_price", "competitor_max_price",
                                 "competitor_median_price", "competitor_count",
                                 "margin", "profit"}
                /\ c.metric = "position" => ctx.position # NullPosition
        IN  engine.result =
                (/\ defined
                 /\ EvaluateBase(c, ctx)
                 /\ \A k \in DOMAIN c.and : EvaluateCondition(c.and[k], ctx)
                 /\ c.or # <<>> => \E k \in DOMAIN c.or : EvaluateCondition(c.or[k], ctx))

\* a true member of or under a base comparison that fails: the result is false
TrueOrMemberUnderFalseBase ==
    /\ engine.op = "evaluate"
    /\ engine.condition.metric = "my_price"
    /\ engine.context.currentPrice >= engine.condition.value
    /\ engine.condition.and = <<>>
    /\ engine.condition.or = <<PriceBelow10, PriceAtLeast10>>
    /\ engine.result = FALSE

(* C28: evaluateStrategy yields no proposal whenever the strategy is       *)
(* inactive, or a stop condition is met (price_reached: current price <=   *)
(* value; position_reached: position known and <= value), or a top-level   *)
(* condition evaluates false; it yields a proposal only when the strategy  *)
(* is active, no stop condition is met and all top-level conditions are    *)
(* true; and it changes no persisted state in either case.                 *)
ProposalOnlyFromActiveUnstoppedStrategy ==
    [][ engine'.op = "evaluateStrategy" =>
          LET s   == engine'.strategy
              ctx == engine'.context
              stopMet ==
                  \E k \in DOMAIN s.stopConditions :
                      \/ /\ s.stopConditions[k].type = "price_reached"
                         /\ ctx.currentPrice <= s.stopConditions[k].value
                      \/ /\ s.stopConditions[k].type = "position_reached"
                         /\ ctx.position # NullPosition
                         /\ ctx.position <= s.stopConditions[k].value
              conditionFails ==
                  \E k \in DOMAIN s.conditions : ~EvaluateCondition(s.conditions[k], ctx)
              due == s.active /\ ~stopMet /\ ~conditionFails
          IN  /\ ~due => engine'.result = NoProposal
              /\ engine'.result.kind \in {"price", "nan"} => due
              /\ UNCHANGED <<skus, strategies, skuStrategies, signals, priceHistory,
                             marketData, priceRejections>> ]_vars

\* an active strategy whose conditions all hold stopped by the rank it reached
StoppedAtPositionReached ==
    /\ engine.op = "evaluateStrategy"
    /\ engine.strategy.active
    /\ engine.strategy.conditions = <<PriceAtLeast10, RankInTop5>>
    /\ engine.strategy.stopConditions =
          <<StopCondition("time_elapsed", 1), StopCondition("position_reached", 3)>>
    /\ engine.context.position = 2
    /\ engine.strategy.actions # <<>>
    /\ engine.result = NoProposal

(* C29: when a strategy has a non-empty action list the proposal is        *)
(* determined by its first action alone: the remaining actions and the     *)
(* strategy type have no effect on it, and the built-in algorithm of the   *)
(* type runs only when the action list is empty.                           *)
FirstActionAloneDecides ==
    (engine.op = "evaluateStrategy" /\ engine.strategy.actions # <<>>) =>
        \A t \in StrategyTypes :
            engine.result =
                EvaluateStrategy(engine.context,
                    [engine.strategy EXCEPT !.type = t,
                                            !.actions = <<engine.strategy.actions[1]>>])

\* a strategy of an unknown type proposes the price of its first action,
\* 5% above 12, ahead of two more actions
FirstOfThreeActionsProposed ==
    /\ engine.op = "evaluateStrategy"
    /\ engine.strategy.type = "custom"
    /\ Len(engine.strategy.actions) = 3
    /\ engine.strategy.actions[1].type = "increase_price"
    /\ engine.result = Proposal(1260 * Cent)

BuiltInStrategiesHoldWithoutData ==
    (/\ engine.op = "executeStrategyByType"
     /\ engine.strategy.type \in {"competitive_hold", "price_leader", "margin_maximizer"}
     /\ engine.context.marketData.minPrice = 0
     /\ engine.context.marketData.maxPrice = 0
     /\ engine.context.marketData.medianPrice = 0
     /\ engine.context.marketData.competitors = <<>>) =>
        /\ engine.result.kind = "price"
        /\ engine.result.price = engine.context.currentPrice

(* C32: price_leader holds the current price when the position is known    *)
(* and at most 3; otherwise it proposes max(0.98 x market minPrice, 0.90 x  *)
(* current price), so a single step never lowers the price by more than    *)
(* 10% of the current price.                                               *)
PriceLeaderStepIsClamped ==
    (engine.op = "executeStrategyByType" /\ engine.strategy.type = "price_leader") =>
        LET ctx    == engine.context
            price  == ctx.currentPrice
            target == RoundDiv(ctx.marketData.minPrice * 98, 100)
            floor  == price - RoundDiv(price * 10, 100)
        IN  /\ engine.result.kind = "price"
            /\ (ctx.position # NullPosition /\ ctx.position <= 3) =>
                  engine.result.price = price
            /\ ~(ctx.position # NullPosition /\ ctx.position <= 3) =>
                  engine.result.price = (IF target >= floor THEN target ELSE floor)
            /\ 10 * engine.result.price >= 9 * price

\* a market far below the price of 15: the step stops at 13.50, not at 8.82
PriceLeaderStoppedAtTenPercent ==
    /\ engine.op = "executeStrategyByType"
    /\ engine.strategy.type = "price_leader"
    /\ engine.context.position = 4
    /\ engine.context.currentPrice = 15 * Scale
    /\ engine.context.marketData.minPrice = 9 * Scale
    /\ engine.result = Proposal(1350 * Cent)

(* C40: for every snapshot with at least one in-stock competitor with a    *)
(* positive discounted price (exactly one included), competitive_hold      *)
(* proposes the current price or the rounded median of those prices after  *)
(* the lowest 20% are dropped: the proposal is a defined number between    *)
(* the smallest and the largest of those prices, or the current price.     *)
CompetitiveHoldProposesADefinedPrice ==
    LET cs     == engine.context.marketData.competitors
        priced == {k \in DOMAIN cs : cs[k].inStock /\ cs[k].priceWithDiscount > 0}
    IN  (/\ engine.op = "executeStrategyByType"
         /\ engine.strategy.type = "competitive_hold"
         /\ priced # {}) =>
            /\ engine.result.kind = "price"
            /\ \/ engine.result.price = engine.context.currentPrice
               \/ /\ \E k \in priced : cs[k].priceWithDiscount <= engine.result.price
                  /\ \E k \in priced : cs[k].priceWithDiscount >= engine.result.price

(* C33: getUnprocessedSignals(limit) returns only signals with             *)
(* processed = false, at most limit of them, ordered by priority           *)
(* descending and then by creation time ascending; no unprocessed signal   *)
(* left out ranks before one that is returned.                             *)
QueryReturnsTheFirstUnprocessed ==
    engine.op = "getUnprocessedSignals" =>
        LET result == engine.result
            got    == {result[k] : k \in DOMAIN result}
            before(j, i) ==
                \/ signals[j].priority > signals[i].priority
                \/ /\ signals[j].priority = signals[i].priority
                   /\ signals[j].createdAt < signals[i].createdAt
        IN  /\ got \subseteq DOMAIN signals
            /\ \A i \in got : ~signals[i].processed
            /\ Len(result) <= engine.limit
            /\ Cardinality(got) = Len(result)
            /\ \A k, l \in DOMAIN result : k < l => ~before(result[l], result[k])
            /\ \A j \in DOMAIN signals \ got :
                  ~signals[j].processed =>
                      /\ Len(result) = engine.limit
                      /\ \A i \in got : ~before(j, i)

\* three unprocessed rows and a limit of 2: the later row of higher
\* priority is returned first, and the row of lowest rank is left out
LaterUrgentSignalReturnedFirst ==
    /\ engine.op = "getUnprocessedSignals"
    /\ engine.limit = 2
    /\ Len(signals) = 3
    /\ \A i \in 1..3 : ~signals[i].processed
    /\ signals[1].type = "competitor_price_rise"
    /\ signals[2].type = "competitor_price_drop"
    /\ signals[3].type = "competitor_oos"
    /\ engine.result = <<3, 2>>

(* C34: when the active strategy has a type without a built-in algorithm   *)
(* (inventory_driven or clearance, which the creation schema accepts) and  *)
(* an empty action list, reprice commits nothing for the SKU and returns a *)
(* result with success = false whose error names the unknown type.         *)
UnknownTypeFailsWithoutCommit ==
    strategies["A"].type \in {"inventory_driven", "clearance"} =>
        /\ \A k \in DOMAIN priceHistory : priceHistory[k].skuId # "s1"
        /\ skus["s1"].currentPrice = DefaultSKU("u1").currentPrice
        /\ wb["s1"] = DefaultSKU("u1").currentPrice
        /\ \A j \in JobIds :
              (jobs[j].skuId = "s1" /\ jobs[j].strategyId = "A"
                  /\ jobs[j].outcome.kind # "none") =>
                    /\ jobs[j].outcome.kind = "returned"
                    /\ ~jobs[j].outcome.success
                    /\ jobs[j].outcome.error
                          = "Unknown strategy type: " \o strategies["A"].type

\* reprice has returned for a clearance strategy
ClearanceStrategyReturnedFailure ==
    \E j \in JobIds :
        /\ strategies["A"].type = "clearance"
        /\ jobs[j].skuId = "s1" /\ jobs[j].strategyId = "A"
        /\ jobs[j].outcome.kind = "returned"
        /\ jobs[j].outcome.error = "Unknown strategy type: clearance"

(* C35: for every SKU and every local calendar day, the number of          *)
(* PriceHistory entries committed for the SKU on that day never exceeds    *)
(* the maxChangesPerDay of the SKU's active strategy, whatever the         *)
(* interleaving of signal-driven, manual and retried reprice jobs.         *)
DailyQuotaIsNeverExceeded ==
    \A s \in SKUIds, id \in StrategyIds :
        skuStrategies[<<s, id>>] = Active =>
            \A k \in HistoryOf(s) :
                Cardinality({l \in DOMAIN priceHistory :
                                /\ priceHistory[l].skuId = s
                                /\ priceHistory[l].time \div MinutesPerDay
                                      = priceHistory[k].time \div MinutesPerDay})
                    <= strategies[id].maxChangesPerDay

(* C36: every PriceHistory entry appended by reprice records an actual     *)
(* change: its price differs from the SKU's current price as reprice       *)
(* loaded it before the commit, so a hold appends no entry (and takes      *)
(* nothing from the cooldown or the daily quota).                          *)
HistoryRecordsOnlyChanges ==
    [][\A j \in JobIds :
          (/\ jobs[j].state = "active" /\ jobs[j].pc = "history"
           /\ jobs'[j] # jobs[j]
           /\ Len(priceHistory') = Len(priceHistory) + 1) =>
              priceHistory'[Len(priceHistory')].price # jobs[j].sku.currentPrice]_vars

(* C37: audit consistency.  Whenever no reprice job is waiting or running  *)
(* for a SKU that has at least one PriceHistory entry, the SKU's current   *)
(* price equals the price of its most recent entry: a commit rolled back   *)
(* after a failed push leaves no entry that counts as committed.           *)
PriceIsThatOfLastHistoryEntry ==
    \A s \in SKUIds :
        (/\ \A j \in JobIds :
                jobs[j].skuId = s => jobs[j].state \notin {"waiting", "active"}
         /\ HistoryOf(s) # {}) =>
            LET last == CHOOSE k \in HistoryOf(s) : \A l \in HistoryOf(s) : l <= k
            IN  skus[s].currentPrice = priceHistory[last].price

(* C38: no starvation in the sweep: every unprocessed signal that would    *)
(* pass all the gates is eventually processed, also when SweepLimit (50)   *)
(* or more unprocessed signals ranked ahead of it are rejected on every    *)
(* sweep.                                                                  *)
PassableSignalIsEventuallyProcessed ==
    <>(\A i \in DOMAIN signals :
          (/\ skus[signals[i].skuId].active
           /\ \E id \in StrategyIds : skuStrategies[<<signals[i].skuId, id>>] = Active)
              => signals[i].processed)

(* C39: activateForSKU changes attachments only of SKUs the requesting     *)
(* user owns: like attachToSKU, a request that names another user's SKU    *)
(* leaves the attachments of that SKU as they were.                        *)
AttachmentsChangeOnlyForOwnSKUs ==
    [][\A s \in SKUIds :
          (\E id \in StrategyIds : skuStrategies'[<<s, id>>] # skuStrategies[<<s, id>>]) =>
              \E r \in ReqIds :
                  /\ reqs'[r] # reqs[r]
                  /\ reqs[r].skuId = s
                  /\ skus[s].userId = reqs[r].userId]_vars

=============================================================================
